---- MODULE Spec2Model ----
(***************************************************************************)
(* Model of the ETL pipeline of the ANS expenses repository:               *)
(*   src/src/etl/processor.py     DataProcessor                            *)
(*   src/src/etl/consolidator.py  DataConsolidator                         *)
(*                                                                         *)
(* Representation of the data.                                             *)
(*   - a Python str is a sequence of one-character strings;                *)
(*   - a missing value (None / float NaN) of a string column is NaN;       *)
(*   - a DataFrame is [cols, index, rows]: the set of column names, the    *)
(*     index labels and the rows, each row a record over cols;             *)
(*   - an amount is [kind, val]: a number (val, in units of 10^6), a text  *)
(*     that is no number, or a missing value.                              *)
(***************************************************************************)
EXTENDS Integers, Sequences, FiniteSets, TLC

VARIABLES
    pc,             \* position of the caller: which call is next / done
    cnpj,           \* argument of DataProcessor.validate_cnpj
    cnpj_ret,       \* its return value (valido, cnpj_limpo)
    val_df,         \* argument of DataProcessor.validate_dataframe
    val_ret,        \* the DataFrame it returns
    dataframes,     \* the caller's list of tables, given to consolidar_trimestres
    anos,           \* the years given with them
    trimestres,     \* the quarters given with them
    entrada,        \* history: the tables as they were when the call was made
    df_consolidado, \* DataConsolidator.df_consolidado: <<>> is None
    consol_ret,     \* what consolidar_trimestres returned or raised
    arquivos,       \* executar_pipeline_completo: the expense files, as read_file reads them
    cadastro,       \* the registry file: <<>> when there is none
    df_operadoras,  \* DataConsolidator.df_operadoras: <<>> is None
    df_pipeline,    \* executar_pipeline_completo: its local df_consolidado
    enr_df,         \* enriquecer_com_cadastro: its argument df
    enr_ret,        \* enriquecer_com_cadastro: the table it returned
    agg_entrada,    \* calcular_agregacoes: the table as the caller passed it
    agg_df,         \* calcular_agregacoes: its argument df, which it writes to
    agg_ret,        \* calcular_agregacoes: the table it returned
    falha_leitura,  \* the expense files, by place, on which read_file raises
    cadastro_legivel, \* whether pd.read_csv can read the registry file
    df_agregado,    \* executar_pipeline_completo: its local df_agregado, <<>> before
    saida,          \* the files written to output_dir
    stats,          \* what executar_pipeline_completo returned, <<>> before
    cnpj_obj,       \* CNPJ(valor=...): the value object built, or the error raised
    despesas,       \* the rows of table despesas
    despesas_agregadas, \* the rows of table despesas_agregadas
    autoinc,        \* the next AUTO_INCREMENT id of each of the two tables
    lote,           \* history: the committed save_batch calls, their number and the last batch
    cache,          \* the TTLCache: _data, _timestamp, _hits, _misses
    agora,          \* datetime.now(), in units of time
    get_ret,        \* what the last TTLCache.get returned
    ultimo_set,     \* history: value and time of the last set, <<>> after invalidate
    call_count,     \* the calls of the function that @cached wraps
    wrap_ret,       \* what the last call of the wrapper returned
    lock,           \* TTLCache._lock: the thread that holds it, 0 when free
    th,             \* the threads: the call each is in, its position and its locals
    obs,            \* history: the values given to set, the gets that returned, by outcome
    disco,          \* the file data_dir / filename: whether it exists, the chunks in it
    attempt,        \* _download_file: its loop variable, 0 outside the loop
    dl_ret,         \* _download_file: what the last call returned or raised
    dl_hist,        \* history: the calls made and the outcomes of the attempts of the last
    quantidade,     \* get_ultimos_trimestres: its argument
    year,           \* its local year
    quarter,        \* its local quarter
    periodos        \* its local list trimestres, returned at the end

cnpjVars == <<cnpj, cnpj_ret>>
valVars == <<val_df, val_ret>>
consolVars == <<dataframes, anos, trimestres, entrada, df_consolidado, consol_ret>>
unitVars == <<enr_df, enr_ret, agg_entrada, agg_df, agg_ret>>
runVars == <<falha_leitura, cadastro_legivel, df_agregado, saida, stats>>
pipeVars == <<arquivos, cadastro, df_operadoras, df_pipeline, unitVars, runVars>>
storeVars == <<despesas, despesas_agregadas, autoinc, lote>>
cacheVars == <<cache, agora, get_ret, ultimo_set>>
wrapVars == <<call_count, wrap_ret>>
threadVars == <<lock, th, obs>>
dlVars == <<disco, attempt, dl_ret, dl_hist>>
triVars == <<quantidade, year, quarter, periodos>>
extraVars == <<cnpj_obj, storeVars, cacheVars, wrapVars, threadVars, dlVars, triVars>>
\* what the actions of each later part leave alone
foraObj == <<storeVars, cacheVars, wrapVars, threadVars, dlVars, triVars>>
foraStore == <<cnpj_obj, cacheVars, wrapVars, threadVars, dlVars, triVars>>
foraCache == <<cnpj_obj, storeVars, dlVars, triVars>>
foraDl == <<cnpj_obj, storeVars, cacheVars, wrapVars, threadVars, triVars>>
foraTri == <<cnpj_obj, storeVars, cacheVars, wrapVars, threadVars, dlVars>>
etlVars == <<cnpjVars, valVars, consolVars, pipeVars>>
vars == <<pc, cnpj, cnpj_ret, val_df, val_ret,
          dataframes, anos, trimestres, entrada, df_consolidado, consol_ret,
          arquivos, cadastro, df_operadoras, df_pipeline, enr_df, enr_ret,
          agg_entrada, agg_df, agg_ret,
          falha_leitura, cadastro_legivel, df_agregado, saida, stats,
          cnpj_obj, despesas, despesas_agregadas, autoinc, lote,
          cache, agora, get_ret, ultimo_set,
          call_count, wrap_ret,
          lock, th, obs,
          disco, attempt, dl_ret, dl_hist,
          quantidade, year, quarter, periodos>>

(***************************************************************************)
(* Bounds of the model.                                                    *)
(***************************************************************************)
\* number of trailing positions of the 12-digit base that take every digit
VaryLen == 1
\* rows of the table given to validate_dataframe
MaxValRows == 2
\* tables in the list given to consolidar_trimestres
MaxTables == 2
\* rows of all the tables of that list together
MaxRows == 2
\* expense files of a pipeline run
MaxFiles == 2
\* rows of all the expense files of a run together
MaxFileRows == 2
\* rows of the table given to enriquecer_com_cadastro
MaxEnrRows == 2
\* rows of the table given to calcular_agregacoes
MaxAggRows == 2

(***************************************************************************)
(* Strings.                                                                *)
(***************************************************************************)
NaN == <<"NaN">>

DigitChars == {"0", "1", "2", "3", "4", "5", "6", "7", "8", "9"}

DigitChar == <<"0", "1", "2", "3", "4", "5", "6", "7", "8", "9">>

\* int(c) for a decimal digit c
IntOf(c) == CHOOSE d \in 0..9 : DigitChar[d + 1] = c

\* c.isdigit()
IsDigit(c) == c \in DigitChars

Range(s) == {s[i] : i \in DOMAIN s}

\* "".join(c for c in str(cnpj) if c.isdigit())          processor.py:220
OnlyDigits(s) == SelectSeq(s, IsDigit)

\* str.zfill(width) on a string of digits                 processor.py:225
ZFill(s, width) ==
    IF Len(s) >= width THEN s
    ELSE [i \in 1..(width - Len(s)) |-> "0"] \o s

\* s[:n]
Take(s, n) == SubSeq(s, 1, IF n < Len(s) THEN n ELSE Len(s))

(***************************************************************************)
(* DataProcessor.validate_cnpj                          processor.py:202   *)
(***************************************************************************)
pesos_1 == <<5, 4, 3, 2, 9, 8, 7, 6, 5, 4, 3, 2>>
pesos_2 == <<6, 5, 4, 3, 2, 9, 8, 7, 6, 5, 4, 3, 2>>

Min(a, b) == IF a < b THEN a ELSE b

\* sum(int(d) * p for d, p in zip(cnpj_base, pesos))
RECURSIVE SomaPonderada(_, _, _)
SomaPonderada(cnpj_base, pesos, n) ==
    IF n = 0 THEN 0
    ELSE SomaPonderada(cnpj_base, pesos, n - 1) + IntOf(cnpj_base[n]) * pesos[n]

\* mutant: the remainder 2 also mapped to check digit 0
calc_digito_le2(cnpj_base, pesos) ==
    LET soma == SomaPonderada(cnpj_base, pesos, Min(Len(cnpj_base), Len(pesos)))
        resto == soma % 11
    IN  IF resto <= 2 THEN 0 ELSE 11 - resto

calc_digito(cnpj_base, pesos) ==
    LET soma == SomaPonderada(cnpj_base, pesos, Min(Len(cnpj_base), Len(pesos)))
        resto == soma % 11
    IN  IF resto < 2 THEN 0 ELSE 11 - resto

\* mutant: the repeated-sequence test left out
IsRepeatedSequenceNever(cnpj_limpo) == FALSE

\* len(set(cnpj_limpo)) == 1                              processor.py:230
IsRepeatedSequence(cnpj_limpo) == Cardinality(Range(cnpj_limpo)) = 1

validate_cnpj(c) ==
    IF c = NaN THEN [valido |-> FALSE, limpo |-> <<>>]
    ELSE
      LET limpo0 == OnlyDigits(c)
          cnpj_limpo == IF Len(limpo0) # 14 THEN ZFill(limpo0, 14) ELSE limpo0
      IN  IF Len(cnpj_limpo) # 14
            THEN [valido |-> FALSE, limpo |-> cnpj_limpo]
          ELSE IF IsRepeatedSequence(cnpj_limpo)
            THEN [valido |-> FALSE, limpo |-> cnpj_limpo]
          ELSE
            LET digito_1 == calc_digito(Take(cnpj_limpo, 12), pesos_1)
                digito_2 == calc_digito(Take(cnpj_limpo, 13), pesos_2)
            IN  [valido |-> IntOf(cnpj_limpo[13]) = digito_1
                            /\ IntOf(cnpj_limpo[14]) = digito_2,
                 limpo  |-> cnpj_limpo]

(***************************************************************************)
(* Inputs of validate_cnpj.                                                *)
(***************************************************************************)
\* the first twelve digits of the identifier used by the tests, 11444777000161
BaseTeste == <<"1", "1", "4", "4", "4", "7", "7", "7", "0", "0", "0", "1">>

CnpjTeste == BaseTeste \o <<"6", "1">>

DigitSeqs(n) == [1..n -> DigitChars]

\* twelve-digit bases: the test base with its last VaryLen digits free, and the
\* ten sequences of one repeated digit
Bases ==
    {Take(BaseTeste, 12 - VaryLen) \o t : t \in DigitSeqs(VaryLen)}
    \cup {[i \in 1..12 |-> d] : d \in DigitChars}

Cnpjs14 == {b \o t : b \in Bases, t \in DigitSeqs(2)}

\* XX.XXX.XXX/XXXX-XX
Formatado(v) ==
    SubSeq(v, 1, 2) \o <<".">> \o SubSeq(v, 3, 5) \o <<".">> \o SubSeq(v, 6, 8)
    \o <<"/">> \o SubSeq(v, 9, 12) \o <<"-">> \o SubSeq(v, 13, 14)

\* the digits as a spreadsheet or an integer column keeps them: no leading zero
RECURSIVE SemZerosAEsquerda(_)
SemZerosAEsquerda(v) ==
    IF v # <<>> /\ Head(v) = "0" THEN SemZerosAEsquerda(Tail(v)) ELSE v

Formas == {"plain", "formatted", "stripped", "long"}

Escrito(v, forma) ==
    CASE forma = "plain"     -> v
      [] forma = "formatted" -> Formatado(v)
      [] forma = "stripped"  -> SemZerosAEsquerda(v)
      [] forma = "long"      -> v \o <<"0">>

CnpjInputs ==
    {Escrito(v, f) : v \in Cnpjs14, f \in Formas}
    \cup {NaN, <<>>, <<"a", "b", "c">>, <<"-">>}

NoRet == [valido |-> FALSE, limpo |-> <<"?">>]

IdleCnpj == cnpj = NaN /\ cnpj_ret = NoRet

(***************************************************************************)
(* DataFrames.                                                             *)
(***************************************************************************)
EmptyDf == [cols |-> {}, index |-> <<>>, rows |-> <<>>]

\* RangeIndex(n): the labels 0 .. n-1
RangeIndex(n) == [i \in 1..n |-> i - 1]

\* StatusQualidade                                        entities.py:18
OK == "OK"
CNPJ_INVALIDO == "CNPJ_INVALIDO"
VALOR_SUSPEITO == "VALOR_SUSPEITO"
DUPLICADO == "DUPLICADO"
SEM_CADASTRO == "SEM_CADASTRO"

\* amounts, in thousands: 1e12 is 10^9 thousands          processor.py:303
ValorMaximo == 1000000000

Num(v) == [kind |-> "num", val |-> v]
NumStr(v) == [kind |-> "numstr", val |-> v]
Texto == [kind |-> "text", val |-> 0]
NaNValor == [kind |-> "nan", val |-> 0]

(***************************************************************************)
(* DataProcessor.validate_dataframe                     processor.py:252   *)
(***************************************************************************)
\* pd.to_numeric(df["VALOR"], errors="coerce")            processor.py:297
to_numeric(a) ==
    CASE a.kind = "num"    -> a
      [] a.kind = "numstr" -> Num(a.val)
      [] OTHER             -> NaNValor

\* suspicious_mask                                        processor.py:300
suspicious(a) ==
    \/ a.kind = "nan"
    \/ (a.kind = "num" /\ a.val < 0)
    \/ (a.kind = "num" /\ a.val > ValorMaximo)

\* df.loc[invalid_mask, "STATUS_QUALIDADE"] = CNPJ_INVALIDO   processor.py:290
MarcaCnpj(status, valido) == IF ~valido THEN CNPJ_INVALIDO ELSE status

\* mutant: the ok_mask left out of the amount flag
MarcaValorSemOk(status, suspeito) == IF suspeito THEN VALOR_SUSPEITO ELSE status

\* df.loc[suspicious_mask & ok_mask, "STATUS_QUALIDADE"] = VALOR_SUSPEITO
\*                                                        processor.py:306
MarcaValor(status, suspeito) ==
    IF suspeito /\ status = OK THEN VALOR_SUSPEITO ELSE status

\* the block "Valida CNPJ"                                 processor.py:280
ValidaCnpj(df) ==
    IF "CNPJ" \in df.cols
    THEN [df EXCEPT !.rows = [i \in DOMAIN df.rows |->
            LET v == validate_cnpj(df.rows[i].CNPJ)
            IN  [df.rows[i] EXCEPT !.CNPJ = v.limpo,
                                   !.STATUS_QUALIDADE = MarcaCnpj(@, v.valido)]]]
    ELSE df

\* the block "Valida VALOR"                                processor.py:294
ValidaValor(df) ==
    IF "VALOR" \in df.cols
    THEN [df EXCEPT !.rows = [i \in DOMAIN df.rows |->
            LET valor == to_numeric(df.rows[i].VALOR)
            IN  [df.rows[i] EXCEPT !.VALOR = valor,
                                   !.STATUS_QUALIDADE = MarcaValor(@, suspicious(valor))]]]
    ELSE df

validate_dataframe(df) == ValidaValor(ValidaCnpj(df))

(***************************************************************************)
(* Inputs of validate_dataframe: tables with a RangeIndex and a            *)
(* STATUS_QUALIDADE column, as read_file and normalize_columns make them,  *)
(* with or without the CNPJ and VALOR columns.                             *)
(***************************************************************************)
CnpjInvalidoTeste == BaseTeste \o <<"6", "0">>

\* 00.000.000/0001-91 as an integer column keeps it
CnpjCurto == <<"1", "9", "1">>

CnpjAmostra ==
    {Formatado(CnpjTeste), CnpjInvalidoTeste, CnpjCurto, CnpjTeste \o <<"0">>, NaN}

ValorAmostra == {Num(1), Num(0 - 1), Num(ValorMaximo + 1), Texto, NaNValor}

StatusAmostra == {OK, DUPLICADO}

RowsOfCols(cols, CnpjSet, ValorSet, StatusSet) ==
    CASE cols = {"CNPJ", "VALOR", "STATUS_QUALIDADE"} ->
           [CNPJ : CnpjSet, VALOR : ValorSet, STATUS_QUALIDADE : StatusSet]
      [] cols = {"CNPJ", "STATUS_QUALIDADE"} ->
           [CNPJ : CnpjSet, STATUS_QUALIDADE : StatusSet]
      [] cols = {"VALOR", "STATUS_QUALIDADE"} ->
           [VALOR : ValorSet, STATUS_QUALIDADE : StatusSet]
      [] cols = {"STATUS_QUALIDADE"} ->
           [STATUS_QUALIDADE : StatusSet]

ValCols ==
    {{"CNPJ", "VALOR", "STATUS_QUALIDADE"}, {"CNPJ", "STATUS_QUALIDADE"},
     {"VALOR", "STATUS_QUALIDADE"}, {"STATUS_QUALIDADE"}}

\* a table of n rows over the columns c
TableOf(c, r) == [cols |-> c, index |-> RangeIndex(Len(r)), rows |-> r]

IdleVal == val_df = EmptyDf /\ val_ret = EmptyDf

(***************************************************************************)
(* DataConsolidator.consolidar_trimestres              consolidator.py:47  *)
(***************************************************************************)
\* the missing value pd.concat fills a column with, for the rows of a table
\* that has no such column
NaCell(c) ==
    CASE c = "VALOR"            -> NaNValor
      [] c = "STATUS_QUALIDADE" -> "NaN"
      [] OTHER                  -> NaN

\* df[col] = value: the column is added, or overwritten, in every row
SetColumn(df, col, value) ==
    [df EXCEPT !.cols = @ \cup {col},
               !.rows = [i \in DOMAIN df.rows |->
                           [c \in df.cols \cup {col} |->
                               IF c = col THEN value ELSE df.rows[i][c]]]]

\* the body of the loop over zip(dataframes, anos, trimestres), on the copy
\*                                                        consolidator.py:79
AddPeriodo(df, ano, tri) ==
    LET df1 == IF "ANO" \notin df.cols THEN SetColumn(df, "ANO", ano) ELSE df
    IN  IF "TRIMESTRE" \notin df1.cols THEN SetColumn(df1, "TRIMESTRE", tri) ELSE df1

\* mutant: the loop works on the caller's table, not on a copy
CallerViewSemCopy(df, ano, tri) == AddPeriodo(df, ano, tri)

\* the caller's table after the loop body: df = df.copy() makes the loop work
\* on a copy, so the caller's table is as it was      consolidator.py:77
CallerView(df, ano, tri) == df

enhanced_dfs(dfs, as, ts) ==
    [i \in DOMAIN dfs |-> AddPeriodo(dfs[i], as[i], ts[i])]

RECURSIVE ConcatRows(_, _, _)
ConcatRows(dfs, cols, i) ==
    IF i > Len(dfs) THEN <<>>
    ELSE [j \in DOMAIN dfs[i].rows |->
            [c \in cols |-> IF c \in dfs[i].cols THEN dfs[i].rows[j][c] ELSE NaCell(c)]]
         \o ConcatRows(dfs, cols, i + 1)

\* pd.concat(dfs, ignore_index=True), for a list that is not empty
\*                                                        consolidator.py:89
Concat(dfs) ==
    LET cols == UNION {dfs[i].cols : i \in DOMAIN dfs}
        rows == ConcatRows(dfs, cols, 1)
    IN  [cols |-> cols, index |-> RangeIndex(Len(rows)), rows |-> rows]

\* subset=["CNPJ", "ANO", "TRIMESTRE"]
Subset == <<"CNPJ", "ANO", "TRIMESTRE">>

KeyOf(row, subset) == [k \in DOMAIN subset |-> row[subset[k]]]

\* the scan of pandas' duplicated for keep="last": from the last row to the
\* first, a row is a duplicate when its key was seen already
RECURSIVE ScanLast(_, _, _)
ScanLast(keys, i, seen) ==
    IF i = 0 THEN <<>>
    ELSE ScanLast(keys, i - 1, seen \cup {keys[i]}) \o <<keys[i] \in seen>>

\* the scan for keep="first": from the first row to the last
RECURSIVE ScanFirst(_, _, _)
ScanFirst(keys, i, seen) ==
    IF i > Len(keys) THEN <<>>
    ELSE <<keys[i] \in seen>> \o ScanFirst(keys, i + 1, seen \cup {keys[i]})

IsNotTrimestre(c) == c # "TRIMESTRE"

\* mutant: keep="first" whatever is asked
duplicated_first(df, subset, keep) ==
    ScanFirst([i \in DOMAIN df.rows |-> KeyOf(df.rows[i], subset)], 1, {})

\* mutant: the quarter left out of the key
duplicated_sem_trimestre(df, subset, keep) ==
    LET keys == [i \in DOMAIN df.rows |->
                    KeyOf(df.rows[i], SelectSeq(subset, IsNotTrimestre))]
    IN  IF keep = "last" THEN ScanLast(keys, Len(keys), {}) ELSE ScanFirst(keys, 1, {})

\* df.duplicated(subset=subset, keep=keep)     consolidator.py:94, 179
duplicated(df, subset, keep) ==
    LET keys == [i \in DOMAIN df.rows |-> KeyOf(df.rows[i], subset)]
    IN  IF keep = "last" THEN ScanLast(keys, Len(keys), {}) ELSE ScanFirst(keys, 1, {})

\* df.loc[mask, "STATUS_QUALIDADE"] = "DUPLICADO": a column that does not
\* exist is created, missing in the other rows         consolidator.py:105
MarcaDuplicados(df, mask) ==
    [df EXCEPT !.cols = @ \cup {"STATUS_QUALIDADE"},
               !.rows = [i \in DOMAIN df.rows |->
                   [c \in df.cols \cup {"STATUS_QUALIDADE"} |->
                       IF c = "STATUS_QUALIDADE"
                       THEN IF mask[i] THEN DUPLICADO
                            ELSE IF c \in df.cols THEN df.rows[i][c] ELSE NaCell(c)
                       ELSE df.rows[i][c]]]]

\* the positions i of s with keep[i], in order
RECURSIVE Positions(_, _)
Positions(keep, i) ==
    IF i > Len(keep) THEN <<>>
    ELSE (IF keep[i] THEN <<i>> ELSE <<>>) \o Positions(keep, i + 1)

\* df[keep]: the rows selected, each with its index label
Filter(df, keep) ==
    LET pos == Positions(keep, 1)
    IN  [df EXCEPT !.index = [k \in DOMAIN pos |-> df.index[pos[k]]],
                   !.rows  = [k \in DOMAIN pos |-> df.rows[pos[k]]]]

\* mutant: the rows are dropped with keep="first" after being marked with
\* keep="last"
drop_duplicates_first(df, subset, keep) ==
    LET dup == duplicated(df, subset, "first")
    IN  Filter(df, [i \in DOMAIN dup |-> ~dup[i]])

\* df.drop_duplicates(subset=subset, keep=keep)   consolidator.py:108, 179
drop_duplicates(df, subset, keep) ==
    LET dup == duplicated(df, subset, keep)
    IN  Filter(df, [i \in DOMAIN dup |-> ~dup[i]])

Returned(df) == [exc |-> "", df |-> df]
Raised(e) == [exc |-> e, df |-> EmptyDf]
NotCalled == [exc |-> "not called", df |-> EmptyDf]

consolidar_trimestres(dfs, as, ts) ==
    IF Len(dfs) # Len(as) \/ Len(dfs) # Len(ts)
      THEN Raised("ValueError")              \* consolidator.py:71
    ELSE IF Len(dfs) = 0
      THEN Raised("ValueError")              \* pd.concat: no objects to concatenate
    ELSE
      LET df_all == Concat(enhanced_dfs(dfs, as, ts))
      IN  IF ~({"CNPJ", "ANO", "TRIMESTRE"} \subseteq df_all.cols)
            THEN Raised("KeyError")          \* duplicated: a key column is missing
          ELSE
            LET duplicates_mask == duplicated(df_all, Subset, "last")
                num_duplicates == Cardinality({i \in DOMAIN duplicates_mask : duplicates_mask[i]})
            IN  IF num_duplicates > 0
                  THEN Returned(drop_duplicates(MarcaDuplicados(df_all, duplicates_mask),
                                                Subset, "last"))
                  ELSE Returned(df_all)

(***************************************************************************)
(* Inputs of consolidar_trimestres: tables that have the CNPJ and          *)
(* STATUS_QUALIDADE columns, with or without ANO and TRIMESTRE.            *)
(***************************************************************************)
CnpjA == CnpjTeste

\* 00000000000191
CnpjB == [i \in 1..11 |-> "0"] \o CnpjCurto

ConsolCols ==
    {{"CNPJ", "STATUS_QUALIDADE", "ANO", "TRIMESTRE"}, {"CNPJ", "STATUS_QUALIDADE", "ANO"},
     {"CNPJ", "STATUS_QUALIDADE", "TRIMESTRE"}, {"CNPJ", "STATUS_QUALIDADE"}}

ColsLargas ==
    {{"CNPJ", "STATUS_QUALIDADE", "ANO", "TRIMESTRE"}, {"CNPJ", "STATUS_QUALIDADE"}}

\* rows that differ in the key and in the flag
LinhasLargas ==
    [CNPJ : {CnpjA, CnpjB}, STATUS_QUALIDADE : {OK, CNPJ_INVALIDO},
     ANO : {2023, 2024}, TRIMESTRE : {1}]

\* rows that differ in the identifier alone
LinhasEstreitas ==
    [CNPJ : {CnpjA, CnpjB}, STATUS_QUALIDADE : {OK}, ANO : {2023}, TRIMESTRE : {1}]

Periodos == {<<2024, 1>>, <<2025, 2>>}

Project(row, cols) == [c \in cols |-> row[c]]

RECURSIVE Sum(_, _)
Sum(f, n) == IF n = 0 THEN 0 ELSE f[n] + Sum(f, n - 1)

\* the list of tables with lens[i] rows and the columns shapes[i], the rows
\* taken in order from flat
Tables(lens, shapes, flat) ==
    [i \in DOMAIN lens |->
        TableOf(shapes[i],
                [j \in 1..lens[i] |-> Project(flat[Sum(lens, i - 1) + j], shapes[i])])]

IdleConsol ==
    /\ dataframes = <<>> /\ anos = <<>> /\ trimestres = <<>> /\ entrada = <<>>
    /\ df_consolidado = <<>> /\ consol_ret = NotCalled

(***************************************************************************)
(* DataProcessor.normalize_columns and filter_despesas  processor.py:158   *)
(* A file as read_file returns it is [header, index, rows]: the column     *)
(* names in order, and the rows as records over them.                      *)
(***************************************************************************)
Targets == <<"CNPJ", "RAZAO_SOCIAL", "VALOR", "PERIODO", "ANO", "TRIMESTRE">>

\* COLUMN_MAPPINGS                                        processor.py:31
COLUMN_MAPPINGS(target) ==
    CASE target = "CNPJ" -> <<"CNPJ", "cnpj", "REG_ANS", "CD_OPERADORA", "CNPJ_OPERADORA">>
      [] target = "RAZAO_SOCIAL" ->
           <<"RAZAO_SOCIAL", "RAZÃO_SOCIAL", "razao_social", "NOME_RAZAO_SOCIAL",
             "NM_RAZAO_SOCIAL", "OPERADORA">>
      [] target = "VALOR" ->
           <<"VL_SALDO_FINAL", "VALOR", "VL_DESPESA", "DESPESA", "VL_TOTAL", "SALDO_FINAL">>
      [] target = "PERIODO" -> <<"PERIODO", "DATA", "DT_REFERENCIA", "COMPETENCIA">>
      [] target = "ANO" -> <<"ANO", "ano", "YEAR", "DT_ANO">>
      [] target = "TRIMESTRE" -> <<"TRIMESTRE", "trimestre", "QTR", "DT_TRIMESTRE">>

\* str.upper(), on the column names of the model
Upper(name) ==
    CASE name = "cnpj" -> "CNPJ"
      [] name = "Valor" -> "VALOR"
      [] name = "razao_social" -> "RAZAO_SOCIAL"
      [] name = "ano" -> "ANO"
      [] name = "trimestre" -> "TRIMESTRE"
      [] OTHER -> name

\* DataProcessor._find_column; "" is None               processor.py:158
RECURSIVE FindColumn(_, _, _)
FindColumn(header, names, k) ==
    IF k > Len(names) THEN ""
    ELSE IF names[k] \in Range(header) THEN names[k]
    ELSE LET hits == {c \in DOMAIN header : Upper(header[c]) = Upper(names[k])}
         IN  IF hits # {} THEN header[CHOOSE c \in hits : \A d \in hits : c <= d]
             ELSE FindColumn(header, names, k + 1)

find_column(df, target) == FindColumn(df.header, COLUMN_MAPPINGS(target), 1)

\* DataProcessor.normalize_columns: a frame to which no column was mapped has
\* no row, so the scalar STATUS_QUALIDADE column has none either
\*                                                        processor.py:176
normalize_columns(df) ==
    LET found == {t \in Range(Targets) : find_column(df, t) # ""}
    IN  IF found = {}
        THEN [cols |-> {"STATUS_QUALIDADE"}, index |-> <<>>, rows |-> <<>>]
        ELSE [cols  |-> found \cup {"STATUS_QUALIDADE"},
              index |-> df.index,
              rows  |-> [i \in DOMAIN df.rows |->
                          [c \in found \cup {"STATUS_QUALIDADE"} |->
                              IF c = "STATUS_QUALIDADE" THEN OK
                              ELSE df.rows[i][find_column(df, c)]]]]

DescCols == <<"DESCRICAO", "DESC_CONTA", "CD_CONTA_CONTABIL">>

\* mutant: the rows with a flag other than OK are left out
filter_despesas_so_ok(df) ==
    Filter(df, [i \in DOMAIN df.rows |-> df.rows[i].STATUS_QUALIDADE = OK])

\* DataProcessor.filter_despesas                          processor.py:325
filter_despesas(df) ==
    LET present == {k \in DOMAIN DescCols : DescCols[k] \in df.cols}
    IN  IF present # {} /\ Len(df.rows) > 1000
        THEN LET desc_col == DescCols[CHOOSE k \in present : \A d \in present : k <= d]
                 filtered == Filter(df, [i \in DOMAIN df.rows |->
                                 df.rows[i][desc_col] # <<>> /\ Head(df.rows[i][desc_col]) = "4"])
             IN  IF Len(filtered.rows) > 0 THEN filtered ELSE df
        ELSE df

\* the loop body of executar_pipeline_completo           consolidator.py:325
ProcessFile(arquivo) ==
    filter_despesas(validate_dataframe(normalize_columns(arquivo)))

(***************************************************************************)
(* DataConsolidator.carregar_operadoras, enriquecer_com_cadastro           *)
(*                                                     consolidator.py:118 *)
(***************************************************************************)
\* mutant: the registry's identifiers are left as the file writes them
LimpaCnpjCru(c) == c

\* cnpj.astype(str).str.replace(r"\D", "").str.zfill(14)  consolidator.py:151
LimpaCnpj(c) == ZFill(IF c = NaN THEN <<>> ELSE OnlyDigits(c), 14)

carregar_operadoras(arq) ==
    IF "CNPJ" \in arq.cols
    THEN [arq EXCEPT !.rows = [i \in DOMAIN arq.rows |->
                                 [arq.rows[i] EXCEPT !.CNPJ = LimpaCnpj(@)]]]
    ELSE arq

cols_to_add == {"CNPJ", "REGISTRO_ANS", "MODALIDADE", "UF"}

\* left.merge(right, on="CNPJ", how="left", indicator=True): every left row, in
\* order, once per right row of the same CNPJ, or once with the right columns
\* missing when there is none
RECURSIVE MergeRows(_, _, _, _)
MergeRows(left, right, rcols, i) ==
    IF i > Len(left.rows) THEN <<>>
    ELSE LET l == left.rows[i]
             hits == Positions([j \in DOMAIN right.rows |-> right.rows[j].CNPJ = l.CNPJ], 1)
             cols == left.cols \cup rcols \cup {"_merge"}
             both == [h \in DOMAIN hits |->
                        [c \in cols |-> IF c = "_merge" THEN "both"
                                        ELSE IF c \in left.cols THEN l[c]
                                        ELSE right.rows[hits[h]][c]]]
             alone == <<[c \in cols |-> IF c = "_merge" THEN "left_only"
                                        ELSE IF c \in left.cols THEN l[c]
                                        ELSE NaCell(c)]>>
         IN  (IF hits = <<>> THEN alone ELSE both) \o MergeRows(left, right, rcols, i + 1)

\* mutant: how="inner"
merge_inner(left, right, rcols) ==
    LET rows == SelectSeq(MergeRows(left, right, rcols \ {"CNPJ"}, 1),
                          LAMBDA r : r["_merge"] = "both")
    IN  [cols  |-> left.cols \cup rcols \cup {"_merge"},
         index |-> RangeIndex(Len(rows)),
         rows  |-> rows]

merge_left(left, right, rcols) ==
    LET rows == MergeRows(left, right, rcols \ {"CNPJ"}, 1)
    IN  [cols  |-> left.cols \cup rcols \cup {"_merge"},
         index |-> RangeIndex(Len(rows)),
         rows  |-> rows]

\* mutant: the ok_mask left out of the registry flag
MarcaSemCadastroSemOk(status, no_match) == IF no_match THEN SEM_CADASTRO ELSE status

\* mutant: every OK row is flagged, matched or not
MarcaSemCadastroSempre(status, no_match) == IF status = OK THEN SEM_CADASTRO ELSE status

\* df_enriched.loc[no_match_mask & ok_mask, "STATUS_QUALIDADE"] = "SEM_CADASTRO"
\*                                                     consolidator.py:203
MarcaSemCadastro(status, no_match) ==
    IF no_match /\ status = OK THEN SEM_CADASTRO ELSE status

\* df.drop(columns=["_merge"])                          consolidator.py:208
DropColumn(df, col) ==
    [df EXCEPT !.cols = @ \ {col},
               !.rows = [i \in DOMAIN df.rows |-> [c \in df.cols \ {col} |-> df.rows[i][c]]]]

\* DataConsolidator.enriquecer_com_cadastro; ops is self.df_operadoras
enriquecer_com_cadastro(df, ops) ==
    IF ops = <<>> THEN df
    ELSE
      LET operadoras_unique == drop_duplicates(ops[1], <<"CNPJ">>, "first")
          cols_available == cols_to_add \cap operadoras_unique.cols
          df_enriched == merge_left(df, operadoras_unique, cols_available)
          marked ==
            [df_enriched EXCEPT !.rows = [i \in DOMAIN df_enriched.rows |->
                [df_enriched.rows[i] EXCEPT !.STATUS_QUALIDADE =
                    MarcaSemCadastro(@, df_enriched.rows[i]["_merge"] = "left_only")]]]
      IN  DropColumn(marked, "_merge")

(***************************************************************************)
(* DataConsolidator.calcular_agregacoes                consolidator.py:213 *)
(* A mean is the fraction num/den; a standard deviation of two or more     *)
(* amounts is the square root of the fraction num/den.                     *)
(***************************************************************************)
NA_UF == <<"N", "/", "A">>

Frac(n, d) == [kind |-> "frac", num |-> n, den |-> d]
Sqrt(n, d) == [kind |-> "sqrt", num |-> n, den |-> d]

\* df[col] = df[from]
CopyColumn(df, col, from) ==
    [df EXCEPT !.cols = @ \cup {col},
               !.rows = [i \in DOMAIN df.rows |->
                           [c \in df.cols \cup {col} |->
                               IF c = col THEN df.rows[i][from] ELSE df.rows[i][c]]]]

\* df["UF"].fillna("N/A")                               consolidator.py:237
FillNaUF(df) ==
    [df EXCEPT !.rows = [i \in DOMAIN df.rows |->
        [df.rows[i] EXCEPT !.UF = IF @ = NaN THEN NA_UF ELSE @]]]

\* the argument df as the first two blocks leave it: they write to it in place
\*                                                     consolidator.py:227
ComNomeEUF(df) ==
    LET d1 == IF "RAZAO_SOCIAL" \notin df.cols
              THEN IF "RAZAO_SOCIAL_CADASTRO" \in df.cols
                   THEN CopyColumn(df, "RAZAO_SOCIAL", "RAZAO_SOCIAL_CADASTRO")
                   ELSE CopyColumn(df, "RAZAO_SOCIAL", "CNPJ")
              ELSE df
    IN  IF "UF" \notin d1.cols THEN SetColumn(d1, "UF", NA_UF) ELSE FillNaUF(d1)

\* the keys of df.groupby(["RAZAO_SOCIAL", "UF"]): dropna is True by default, a
\* row with a missing value in a key column is in no group
\*                                                     consolidator.py:240
GroupKeys(df) ==
    {<<df.rows[i].RAZAO_SOCIAL, df.rows[i].UF>> :
        i \in {j \in DOMAIN df.rows : df.rows[j].RAZAO_SOCIAL # NaN /\ df.rows[j].UF # NaN}}

Members(df, key) ==
    {i \in DOMAIN df.rows : <<df.rows[i].RAZAO_SOCIAL, df.rows[i].UF>> = key}

\* the amounts that are not missing, of the rows idx
RECURSIVE Valores(_, _, _)
Valores(df, idx, i) ==
    IF i > Len(df.rows) THEN <<>>
    ELSE (IF i \in idx /\ df.rows[i].VALOR.kind = "num"
          THEN <<df.rows[i].VALOR.val>> ELSE <<>>) \o Valores(df, idx, i + 1)

RECURSIVE SumSeq(_)
SumSeq(v) == IF v = <<>> THEN 0 ELSE Head(v) + SumSeq(Tail(v))

\* "mean": missing when no amount is present
mean(v) == IF v = <<>> THEN NaNValor ELSE Frac(SumSeq(v), Len(v))

\* "std", with ddof = 1: missing when fewer than two amounts are present
std(v) ==
    IF Len(v) < 2 THEN NaNValor
    ELSE Sqrt(Len(v) * SumSeq([i \in DOMAIN v |-> v[i] * v[i]]) - SumSeq(v) * SumSeq(v),
              Len(v) * (Len(v) - 1))

\* mutant: the missing deviations are left missing
fillna_never(v, value) == v

\* df_agg["desvio_padrao"].fillna(0)                    consolidator.py:248
fillna(v, value) == IF v = NaNValor THEN value ELSE v

GroupRow(df, key) ==
    LET v == Valores(df, Members(df, key), 1)
    IN  [RAZAO_SOCIAL         |-> key[1],
         UF                   |-> key[2],
         total                |-> SumSeq(v),
         media                |-> mean(v),
         desvio_padrao        |-> fillna(std(v), Num(0)),
         quantidade_registros |-> Len(v)]

AggCols == {"RAZAO_SOCIAL", "UF", "total", "media", "desvio_padrao", "quantidade_registros"}

\* the group rows of the prepared table
Groups(df) == {GroupRow(df, key) : key \in GroupKeys(df)}

\* df_agg.sort_values("total", ascending=False): the orders of the group rows
\* by falling total; the order within a tie is any
SortedByTotal(G) ==
    {o \in [1..Cardinality(G) -> G] :
        /\ \A a, b \in DOMAIN o : a # b => o[a] # o[b]
        /\ \A a, b \in DOMAIN o : a < b => o[a].total >= o[b].total}

\* the tables calcular_agregacoes may return for df; sort_values keeps the
\* index labels of the groupby result, the model numbers the rows anew
calcular_agregacoes(df) ==
    {[cols |-> AggCols, index |-> RangeIndex(Len(o)), rows |-> o] :
        o \in SortedByTotal(Groups(ComNomeEUF(df)))}

(***************************************************************************)
(* DataConsolidator.exportar_csv                       consolidator.py:257 *)
(* A file is its name, its header and its lines; a missing value is        *)
(* written as the empty text.                                              *)
(***************************************************************************)
Vazio == [kind |-> "vazio", val |-> 0]

\* the columns of whole numbers, of amounts, and of texts kept as one string;
\* the others hold texts kept as characters
IntCols == {"ANO", "TRIMESTRE", "total", "quantidade_registros"}
AmountCols == {"VALOR", "media", "desvio_padrao"}

\* pd.isna of the cell v of column c
IsNaCell(c, v) ==
    CASE c \in IntCols           -> FALSE
      [] c \in AmountCols          -> v = NaNValor
      [] c = "STATUS_QUALIDADE"  -> v = "NaN"
      [] OTHER                   -> v = NaN

\* to_csv's text of a cell
CsvCell(c, v) ==
    IF IsNaCell(c, v)
    THEN CASE c \in AmountCols          -> Vazio
           [] c = "STATUS_QUALIDADE" -> ""
           [] OTHER                  -> <<>>
    ELSE v

\* df.to_csv(filepath, sep=";", index=False); with compress the file is put in
\* an archive of the same name and removed
exportar_csv(df, filename, compress) ==
    [nome  |-> IF compress
               THEN CASE filename = "consolidado_despesas.csv" -> "consolidado_despesas.zip"
                      [] OTHER -> filename
               ELSE filename,
     cols  |-> df.cols,
     rows  |-> [i \in DOMAIN df.rows |-> [c \in df.cols |-> CsvCell(c, df.rows[i][c])]]]

\* df[col].nunique(): the distinct values, the missing one not counted
nunique(df, col) ==
    Cardinality({df.rows[i][col] : i \in {j \in DOMAIN df.rows : ~IsNaCell(col, df.rows[j][col])}})

(***************************************************************************)
(* Inputs of executar_pipeline_completo.                                   *)
(***************************************************************************)
Cabecalhos == {<<"CNPJ", "VL_SALDO_FINAL", "ANO", "TRIMESTRE">>, <<"cnpj", "Valor">>}

\* the cells of a file row, by column
LinhaArquivo(header, c, v) ==
    [h \in Range(header) |->
        CASE Upper(h) = "CNPJ" -> c
          [] h = "ANO" -> 2024
          [] h = "TRIMESTRE" -> 1
          [] OTHER -> v]

Arquivo(header, cs) ==
    [header |-> header, index |-> RangeIndex(Len(cs)),
     rows |-> [j \in DOMAIN cs |-> LinhaArquivo(header, cs[j][1], cs[j][2])]]

CelulasAmostra ==
    ({Formatado(CnpjTeste)} \X {NumStr(1000), Num(1200), Num(0 - 1)})
        \cup {<<CnpjInvalidoTeste, NumStr(1000)>>}

\* a run of files of one row each, in quarters 1, 2, ..: the run in which a
\* file or the registry may be unreadable
Simples(arqs, tris) ==
    /\ \A i \in DOMAIN arqs :
          arqs[i] = Arquivo(<<"cnpj", "Valor">>, <<<<Formatado(CnpjTeste), NumStr(1000)>>>>)
    /\ tris = [i \in DOMAIN arqs |-> i]

SP == <<"S", "P">>
RJ == <<"R", "J">>

Cadastro(rows) == [cols |-> {"CNPJ", "UF"}, index |-> RangeIndex(Len(rows)), rows |-> rows]

\* no registry file; an empty registry; a registry with the test identifier;
\* the same with the identifier repeated
CadastroAmostra ==
    {<<>>,
     <<Cadastro(<<>>)>>,
     <<Cadastro(<<[CNPJ |-> Formatado(CnpjTeste), UF |-> SP]>>)>>,
     <<Cadastro(<<[CNPJ |-> CnpjTeste, UF |-> SP], [CNPJ |-> CnpjTeste, UF |-> RJ]>>)>>}

\* the identifiers of expense rows: as validate_dataframe leaves them
DespesaCnpjs == {CnpjA, CnpjB, <<>>}

TodosStatus == {OK, CNPJ_INVALIDO, VALOR_SUSPEITO, DUPLICADO, SEM_CADASTRO}

\* registry files: empty; one identifier; an identifier repeated, written in two
\* ways; another identifier; the two identifiers
CadastroEnrich ==
    {<<Cadastro(<<>>)>>,
     <<Cadastro(<<[CNPJ |-> Formatado(CnpjA), UF |-> SP]>>)>>,
     <<Cadastro(<<[CNPJ |-> CnpjA, UF |-> SP], [CNPJ |-> Formatado(CnpjA), UF |-> RJ],
                 [CNPJ |-> CnpjA, UF |-> NaN]>>)>>,
     <<Cadastro(<<[CNPJ |-> CnpjCurto, UF |-> RJ]>>)>>,
     <<Cadastro(<<[CNPJ |-> CnpjB, UF |-> RJ], [CNPJ |-> CnpjA, UF |-> SP]>>)>>}

Nome1 == <<"A", "l", "f", "a">>
Nome2 == <<"B", "e", "t", "a">>

\* the columns a table given to calcular_agregacoes has besides these three
AggBase == {"CNPJ", "VALOR", "STATUS_QUALIDADE"}

AggShapes ==
    {{}, {"RAZAO_SOCIAL"}, {"UF"}, {"RAZAO_SOCIAL", "UF"}, {"RAZAO_SOCIAL_CADASTRO", "UF"}}

\* rows as validation, consolidation and enrichment leave them: an amount is a
\* number or missing, a name or a region may be missing
AggLinhas ==
    [CNPJ : {CnpjA, CnpjB}, VALOR : {Num(1000), Num(1200), NaNValor},
     STATUS_QUALIDADE : {OK}, RAZAO_SOCIAL : {Nome1, NaN}, UF : {SP, NaN},
     RAZAO_SOCIAL_CADASTRO : {Nome1, Nome2}]

IdleEnrich == enr_df = EmptyDf /\ enr_ret = EmptyDf

IdleAgg == agg_entrada = EmptyDf /\ agg_df = EmptyDf /\ agg_ret = EmptyDf

IdleUnit == IdleEnrich /\ IdleAgg

IdleRun ==
    /\ falha_leitura = {} /\ cadastro_legivel = TRUE
    /\ df_agregado = <<>> /\ saida = <<>> /\ stats = <<>>

IdlePipe ==
    /\ arquivos = <<>> /\ cadastro = <<>> /\ df_operadoras = <<>> /\ df_pipeline = EmptyDf
    /\ IdleUnit /\ IdleRun

\* no value object built
IdleObj == cnpj_obj = <<>>

\* the two tables empty, as create_all leaves them
IdleStore ==
    /\ despesas = <<>> /\ despesas_agregadas = <<>>
    /\ autoinc = [despesas |-> 1, despesas_agregadas |-> 1]
    /\ lote = [chamadas |-> 0, registros |-> <<>>]

IdleCache ==
    /\ cache = [data |-> <<>>, timestamp |-> <<>>, hits |-> 0, misses |-> 0]
    /\ agora = 0 /\ get_ret = <<>> /\ ultimo_set = <<>>

IdleWrap ==
    /\ call_count = 0 /\ wrap_ret = <<>>

IdleThreads ==
    /\ lock = 0 /\ th = <<>>
    /\ obs = [iniciados |-> {}, valores |-> 0, nones |-> 0, chamadas |-> 0]

IdleDl ==
    /\ disco = [existe |-> FALSE, chunks |-> 0]
    /\ attempt = 0 /\ dl_ret = "not called"
    /\ dl_hist = [chamadas |-> 0, tentativas |-> <<>>]

IdleTri ==
    /\ quantidade = 0 /\ year = 0 /\ quarter = 0
    /\ periodos = <<>>

IdleExtra == IdleObj /\ IdleStore /\ IdleCache /\ IdleWrap /\ IdleThreads /\ IdleDl /\ IdleTri

IdleEtl == IdleCnpj /\ IdleVal /\ IdleConsol /\ IdlePipe

InitCnpj ==
    /\ pc = "cnpj_call"
    /\ cnpj \in CnpjInputs
    /\ cnpj_ret = NoRet
    /\ IdleVal /\ IdleConsol /\ IdlePipe /\ IdleExtra

ValidateCnpj ==
    /\ pc = "cnpj_call"
    /\ cnpj_ret' = validate_cnpj(cnpj)
    /\ pc' = "cnpj_done"
    /\ UNCHANGED <<cnpj, extraVars, valVars, consolVars, pipeVars>>

NextCnpj == ValidateCnpj

SpecCnpj == InitCnpj /\ [][NextCnpj]_vars

InitVal ==
    /\ pc = "val_call"
    /\ \E c \in ValCols, n \in 0..MaxValRows :
          \E r \in [1..n -> RowsOfCols(c, CnpjAmostra, ValorAmostra, StatusAmostra)] :
              val_df = TableOf(c, r)
    /\ val_ret = EmptyDf
    /\ IdleCnpj /\ IdleConsol /\ IdlePipe /\ IdleExtra

\* df = df.copy() (processor.py:270): the caller's table is left as it was
ValidateDataframe ==
    /\ pc = "val_call"
    /\ val_ret' = validate_dataframe(val_df)
    /\ pc' = "val_done"
    /\ UNCHANGED <<val_df, extraVars, cnpjVars, consolVars, pipeVars>>

NextVal == ValidateDataframe

SpecVal == InitVal /\ [][NextVal]_vars

\* lists of at most MaxTables tables with at most MaxRows rows together: wide
\* rows with one period for every table, or narrow rows with a period per table
InitConsol ==
    /\ pc = "consol_call"
    /\ \E n \in 0..MaxTables :
         \E lens \in [1..n -> 0..MaxRows] :
           /\ Sum(lens, n) <= MaxRows
           /\ \/ \E shapes \in [1..n -> ColsLargas],
                    flat \in [1..Sum(lens, n) -> LinhasLargas], p \in Periodos :
                   /\ dataframes = Tables(lens, shapes, flat)
                   /\ anos = [i \in 1..n |-> p[1]]
                   /\ trimestres = [i \in 1..n |-> p[2]]
              \/ \E shapes \in [1..n -> ConsolCols],
                    flat \in [1..Sum(lens, n) -> LinhasEstreitas],
                    ps \in [1..n -> Periodos] :
                   /\ dataframes = Tables(lens, shapes, flat)
                   /\ anos = [i \in 1..n |-> ps[i][1]]
                   /\ trimestres = [i \in 1..n |-> ps[i][2]]
    /\ entrada = dataframes
    /\ df_consolidado = <<>>
    /\ consol_ret = NotCalled
    /\ IdleCnpj /\ IdleVal /\ IdlePipe /\ IdleExtra

\* mutant: a call that raises clears the stored result
StoredAfterCleared(r, stored) == IF r.exc = "" THEN <<r.df>> ELSE <<>>

\* self.df_consolidado = df_deduped is the last statement before the return: a
\* call that raises never reaches it                      consolidator.py:115
StoredAfter(r, stored) == IF r.exc = "" THEN <<r.df>> ELSE stored

\* one call consolidar_trimestres(dfs, as, ts) on the caller's tables dfs
Call(dfs, as, ts) ==
    LET r == consolidar_trimestres(dfs, as, ts)
    IN  /\ consol_ret' = r
        /\ df_consolidado' = StoredAfter(r, df_consolidado)
        /\ entrada' = dfs
        /\ dataframes' = IF Len(dfs) = Len(as) /\ Len(dfs) = Len(ts)
                         THEN [i \in DOMAIN dfs |-> CallerView(dfs[i], as[i], ts[i])]
                         ELSE dfs
        /\ anos' = as
        /\ trimestres' = ts

ConsolidarTrimestres ==
    /\ pc = "consol_call"
    /\ Call(dataframes, anos, trimestres)
    /\ pc' = "consol_done"
    /\ UNCHANGED <<extraVars, cnpjVars, valVars, pipeVars>>

\* the result is given back to consolidar_trimestres, alone (k = 1) or with a
\* copy of itself (k = 2)
Reconsolidar(k) ==
    /\ pc = "consol_done"
    /\ consol_ret.exc = ""
    /\ Call([i \in 1..k |-> consol_ret.df],
            [i \in 1..k |-> anos[1]], [i \in 1..k |-> trimestres[1]])
    /\ pc' = "reconsol_done"
    /\ UNCHANGED <<extraVars, cnpjVars, valVars, pipeVars>>

NextConsol ==
    \/ ConsolidarTrimestres
    \/ \E k \in 1..2 : Reconsolidar(k)

SpecConsol == InitConsol /\ [][NextConsol]_vars

\* the lists of a second call, with one of them a table, a year or a quarter
\* short, or the years one too long
Descasados == {"sem_tabela", "sem_ano", "sem_trimestre", "ano_a_mais"}

SemUltimo(s) == IF s = <<>> THEN s ELSE SubSeq(s, 1, Len(s) - 1)

\* after a first call, consolidar_trimestres is called with lists of lengths
\* that differ
ConsolidarDescasado(d) ==
    /\ pc = "consol_done"
    /\ d = "ano_a_mais" \/ Len(dataframes) > 0
    /\ Call(IF d = "sem_tabela" THEN SemUltimo(dataframes) ELSE dataframes,
            CASE d = "sem_ano" -> SemUltimo(anos)
              [] d = "ano_a_mais" -> Append(anos, 2024)
              [] OTHER -> anos,
            IF d = "sem_trimestre" THEN SemUltimo(trimestres) ELSE trimestres)
    /\ pc' = "consol_descasado"
    /\ UNCHANGED <<extraVars, cnpjVars, valVars, pipeVars>>

NextDescasado ==
    \/ ConsolidarTrimestres
    \/ \E d \in Descasados : ConsolidarDescasado(d)

SpecDescasado == InitConsol /\ [][NextDescasado]_vars

(***************************************************************************)
(* DataConsolidator.executar_pipeline_completo         consolidator.py:298 *)
(***************************************************************************)
InitPipe ==
    /\ pc = "pipe_read"
    /\ \E n \in 0..MaxFiles :
         \E lens \in [1..n -> 0..MaxFileRows], headers \in [1..n -> Cabecalhos] :
           /\ Sum(lens, n) <= MaxFileRows
           /\ \E flat \in [1..Sum(lens, n) -> CelulasAmostra] :
                arquivos = [i \in 1..n |->
                    Arquivo(headers[i], [j \in 1..lens[i] |-> flat[Sum(lens, i - 1) + j]])]
           /\ \E mesmo \in BOOLEAN :
                /\ anos = [i \in 1..n |-> 2024]
                /\ trimestres = [i \in 1..n |-> IF mesmo THEN 1 ELSE i]
    /\ falha_leitura \in (IF Simples(arquivos, trimestres)
                           THEN SUBSET (DOMAIN arquivos) ELSE {{}})
    /\ cadastro = <<>> /\ cadastro_legivel = TRUE
    /\ dataframes = <<>> /\ entrada = <<>>
    /\ df_consolidado = <<>> /\ consol_ret = NotCalled
    /\ df_operadoras = <<>> /\ df_pipeline = EmptyDf
    /\ df_agregado = <<>> /\ saida = <<>> /\ stats = <<>>
    /\ IdleExtra /\ IdleCnpj /\ IdleVal /\ IdleUnit

\* 1. one turn of the loop over arquivos_despesas: what read_file raises is
\* not caught                                           consolidator.py:325
ProcessarArquivo ==
    /\ pc = "pipe_read"
    /\ Len(dataframes) < Len(arquivos)
    /\ IF Len(dataframes) + 1 \in falha_leitura
       THEN pc' = "pipe_raised" /\ UNCHANGED dataframes
       ELSE /\ dataframes' = Append(dataframes, ProcessFile(arquivos[Len(dataframes) + 1]))
            /\ UNCHANGED pc
    /\ UNCHANGED <<anos, trimestres, entrada, df_consolidado, consol_ret,
                   extraVars, cnpjVars, valVars, pipeVars>>

\* 2. consolidar_trimestres on the processed tables     consolidator.py:333
ConsolidarPipeline ==
    /\ pc = "pipe_read"
    /\ Len(dataframes) = Len(arquivos)
    /\ Call(dataframes, anos, trimestres)
    /\ pc' = IF consol_ret'.exc = "" THEN "pipe_enrich" ELSE "pipe_raised"
    /\ df_pipeline' = consol_ret'.df
    /\ UNCHANGED <<extraVars, cnpjVars, valVars, unitVars, runVars, arquivos, cadastro, df_operadoras>>

\* 3. the registry file is looked for here: cadastro is the file found, <<>>
\* when there is none. It is loaded and joined when it exists; what pd.read_csv
\* raises in carregar_operadoras is not caught          consolidator.py:336
EnriquecerPipeline ==
    /\ pc = "pipe_enrich"
    /\ cadastro' \in CadastroAmostra
    /\ cadastro_legivel' \in (IF Simples(arquivos, trimestres) /\ cadastro' # <<>>
                               THEN BOOLEAN ELSE {TRUE})
    /\ IF cadastro' # <<>>
       THEN IF cadastro_legivel'
            THEN LET ops == <<carregar_operadoras(cadastro'[1])>>
                 IN  /\ df_operadoras' = ops
                     /\ df_pipeline' = enriquecer_com_cadastro(df_pipeline, ops)
                     /\ pc' = "pipe_enriched"
            ELSE pc' = "pipe_raised" /\ UNCHANGED <<df_operadoras, df_pipeline>>
       ELSE pc' = "pipe_enriched" /\ UNCHANGED <<df_operadoras, df_pipeline>>
    /\ UNCHANGED <<extraVars, cnpjVars, valVars, consolVars, unitVars, arquivos,
                   falha_leitura, df_agregado, saida, stats>>

\* 4. and 5. calcular_agregacoes writes the name and region columns to the
\* local table, which is self.df_consolidado itself when no registry was joined;
\* the two files are written and the statistics returned
\*                                                     consolidator.py:341
FinalizarPipeline ==
    /\ pc = "pipe_enriched"
    /\ \E ag \in calcular_agregacoes(df_pipeline) :
         LET final == ComNomeEUF(df_pipeline)
         IN  /\ df_agregado' = <<ag>>
             /\ df_pipeline' = final
             /\ df_consolidado' = IF df_operadoras = <<>> THEN <<final>> ELSE df_consolidado
             /\ saida' = <<exportar_csv(final, "consolidado_despesas.csv", TRUE),
                           exportar_csv(ag, "despesas_agregadas.csv", FALSE)>>
             /\ stats' = <<[total_registros |-> Len(final.rows),
                            total_grupos    |-> Len(ag.rows),
                            cnpjs_unicos    |-> nunique(final, "CNPJ"),
                            ufs             |-> nunique(final, "UF")]>>
    /\ pc' = "pipe_done"
    /\ UNCHANGED <<extraVars, cnpjVars, valVars, unitVars, dataframes, anos, trimestres, entrada,
                   consol_ret, arquivos, cadastro, df_operadoras,
                   falha_leitura, cadastro_legivel>>

NextPipe ==
    \/ ProcessarArquivo
    \/ ConsolidarPipeline
    \/ EnriquecerPipeline
    \/ FinalizarPipeline

SpecPipe == InitPipe /\ [][NextPipe]_vars

(***************************************************************************)
(* carregar_operadoras and enriquecer_com_cadastro, called on their own    *)
(*                                                     consolidator.py:118 *)
(***************************************************************************)
\* an expense table of at most MaxEnrRows rows with any flag, and a registry
\* file, or none loaded
InitEnrich ==
    /\ pc \in {"enr_load", "enr_call"}
    /\ \E n \in 0..MaxEnrRows :
         \E r \in [1..n -> [CNPJ : DespesaCnpjs, STATUS_QUALIDADE : TodosStatus]] :
            enr_df = TableOf({"CNPJ", "STATUS_QUALIDADE"}, r)
    /\ cadastro \in (IF pc = "enr_load" THEN CadastroEnrich ELSE {<<>>})
    /\ enr_ret = EmptyDf
    /\ arquivos = <<>> /\ df_operadoras = <<>> /\ df_pipeline = EmptyDf
    /\ IdleExtra /\ IdleCnpj /\ IdleVal /\ IdleConsol /\ IdleAgg /\ IdleRun

CarregarOperadoras ==
    /\ pc = "enr_load"
    /\ df_operadoras' = <<carregar_operadoras(cadastro[1])>>
    /\ pc' = "enr_call"
    /\ UNCHANGED <<extraVars, cnpjVars, valVars, consolVars, unitVars, runVars,
                   arquivos, cadastro, df_pipeline>>

Enriquecer ==
    /\ pc = "enr_call"
    /\ enr_ret' = enriquecer_com_cadastro(enr_df, df_operadoras)
    /\ pc' = "enr_done"
    /\ UNCHANGED <<extraVars, cnpjVars, valVars, consolVars, enr_df, agg_entrada, agg_df, agg_ret,
                   runVars, arquivos, cadastro, df_operadoras, df_pipeline>>

NextEnrich ==
    \/ CarregarOperadoras
    \/ Enriquecer

SpecEnrich == InitEnrich /\ [][NextEnrich]_vars

(***************************************************************************)
(* calcular_agregacoes, called on its own              consolidator.py:213 *)
(***************************************************************************)
InitAgg ==
    /\ pc = "agg_call"
    /\ \E shape \in AggShapes, n \in 0..MaxAggRows :
         \E r \in [1..n -> AggLinhas] :
            agg_df = TableOf(AggBase \cup shape,
                             [i \in 1..n |-> [c \in AggBase \cup shape |-> r[i][c]]])
    /\ agg_entrada = agg_df
    /\ agg_ret = EmptyDf
    /\ IdleExtra /\ IdleCnpj /\ IdleVal /\ IdleConsol /\ IdleEnrich /\ IdleRun
    /\ arquivos = <<>> /\ cadastro = <<>> /\ df_operadoras = <<>> /\ df_pipeline = EmptyDf

CalcularAgregacoes ==
    /\ pc = "agg_call"
    /\ agg_ret' \in calcular_agregacoes(agg_df)
    /\ agg_df' = ComNomeEUF(agg_df)
    /\ pc' = "agg_done"
    /\ UNCHANGED <<extraVars, cnpjVars, valVars, consolVars, enr_df, enr_ret, agg_entrada,
                   runVars, arquivos, cadastro, df_operadoras, df_pipeline>>

NextAgg == CalcularAgregacoes

SpecAgg == InitAgg /\ [][NextAgg]_vars

(***************************************************************************)
(* Claims about validate_cnpj, checked under SpecCnpj.                     *)
(***************************************************************************)
Is14Digits(s) == Len(s) = 14 /\ \A i \in 1..14 : s[i] \in DigitChars

AllSame(s) == \A i \in DOMAIN s : s[i] = s[1]

\* the check digit as the claim states it: 0 if (weighted sum mod 11) < 2,
\* else 11 - (weighted sum mod 11)
RECURSIVE C1_Sum(_, _, _)
C1_Sum(s, w, i) == IF i > Len(w) THEN 0 ELSE IntOf(s[i]) * w[i] + C1_Sum(s, w, i + 1)

C1_Check(s, w) ==
    LET m == C1_Sum(s, w, 1) % 11 IN IF m < 2 THEN 0 ELSE 11 - m

\* C1: for every string of exactly 14 decimal digits that is not one repeated
\* digit, validate_cnpj returns is_valid = TRUE exactly when digit 12 equals the
\* check digit over digits 0-11 (weights 5,4,3,2,9,8,7,6,5,4,3,2) and digit 13
\* equals the check digit over digits 0-12 (weights 6,5,4,3,2,9,8,7,6,5,4,3,2);
\* 11444777000161 is valid and 11444777000160 is invalid.
C1_ChecksumIff ==
    (pc = "cnpj_done" /\ cnpj # NaN /\ Is14Digits(cnpj) /\ ~AllSame(cnpj)) =>
        /\ cnpj_ret.valido =
             (/\ IntOf(cnpj[13]) = C1_Check(cnpj, <<5, 4, 3, 2, 9, 8, 7, 6, 5, 4, 3, 2>>)
              /\ IntOf(cnpj[14]) = C1_Check(cnpj, <<6, 5, 4, 3, 2, 9, 8, 7, 6, 5, 4, 3, 2>>))
        /\ (cnpj = CnpjTeste => cnpj_ret.valido)
        /\ (cnpj = BaseTeste \o <<"6", "0">> => ~cnpj_ret.valido)

C1_Witness ==
    /\ pc = "cnpj_done"
    /\ cnpj = CnpjTeste
    /\ cnpj_ret = [valido |-> TRUE, limpo |-> CnpjTeste]

\* the digits of the input, stripped of every other character and left-padded
\* with zeros to 14
C2_Padded == ZFill(IF cnpj = NaN THEN <<>> ELSE OnlyDigits(cnpj), 14)

\* C2: validate_cnpj returns is_valid = FALSE for every input whose digits,
\* stripped and left-padded with zeros to 14, are 14 identical digits, whatever
\* the checksum says (00000000000000, short all-zero and digit-free inputs).
C2_RepeatedInvalid ==
    (pc = "cnpj_done" /\ Len(C2_Padded) = 14 /\ AllSame(C2_Padded)) =>
        ~cnpj_ret.valido

C2_Witness ==
    /\ pc = "cnpj_done"
    /\ cnpj = [i \in 1..14 |-> "0"]
    /\ IntOf(cnpj[13]) = C1_Check(cnpj, <<5, 4, 3, 2, 9, 8, 7, 6, 5, 4, 3, 2>>)
    /\ IntOf(cnpj[14]) = C1_Check(cnpj, <<6, 5, 4, 3, 2, 9, 8, 7, 6, 5, 4, 3, 2>>)
    /\ ~cnpj_ret.valido

(***************************************************************************)
(* Claims about validate_dataframe, checked under SpecVal.                 *)
(***************************************************************************)
ValRowsIdx == DOMAIN val_df.rows

\* the identifier of input row i does not pass validation
InvalidIdentifier(i) ==
    "CNPJ" \in val_df.cols /\ ~validate_cnpj(val_df.rows[i].CNPJ).valido

\* the amount of input row i is missing (or no number), negative or above 1e12
SuspiciousAmount(i) ==
    /\ "VALOR" \in val_df.cols
    /\ LET a == val_df.rows[i].VALOR
       IN  \/ a.kind \in {"nan", "text"}
           \/ a.kind \in {"num", "numstr"} /\ (a.val < 0 \/ a.val > 1000000000)

AllFlagsOk == \A i \in ValRowsIdx : val_df.rows[i].STATUS_QUALIDADE = OK

\* C3: after validate_dataframe on a table whose flags are all OK, every row
\* with both an invalid identifier and a suspicious amount carries
\* CNPJ_INVALIDO and never VALOR_SUSPEITO.
C3_IdentifierFirst ==
    (pc = "val_done" /\ AllFlagsOk) =>
        \A i \in ValRowsIdx :
            (InvalidIdentifier(i) /\ SuspiciousAmount(i)) =>
                /\ val_ret.rows[i].STATUS_QUALIDADE = CNPJ_INVALIDO
                /\ val_ret.rows[i].STATUS_QUALIDADE # VALOR_SUSPEITO

C3_Witness ==
    /\ pc = "val_done"
    /\ AllFlagsOk
    /\ \E i \in ValRowsIdx :
          /\ InvalidIdentifier(i) /\ SuspiciousAmount(i)
          /\ val_df.rows[i].VALOR = Num(0 - 1)
          /\ val_ret.rows[i].STATUS_QUALIDADE = CNPJ_INVALIDO

\* C5: validate_dataframe sets INVALID_IDENTIFIER only on a row whose current
\* flag is OK: a row with an invalid identifier that enters with a non-OK flag
\* leaves validation with its flag unchanged.
C5_OnlyIfOk ==
    pc = "val_done" =>
        \A i \in ValRowsIdx :
            (InvalidIdentifier(i) /\ val_df.rows[i].STATUS_QUALIDADE # OK) =>
                val_ret.rows[i].STATUS_QUALIDADE = val_df.rows[i].STATUS_QUALIDADE

\* C6: after validate_dataframe the identifier of every row is a string of
\* exactly 14 decimal digits, for any raw identifier value.
C6_Identifier14 ==
    (pc = "val_done" /\ "CNPJ" \in val_df.cols) =>
        \A i \in ValRowsIdx : Is14Digits(val_ret.rows[i].CNPJ)

(***************************************************************************)
(* Claims about consolidar_trimestres, checked under SpecConsol.           *)
(***************************************************************************)
ConsolReturned == pc \in {"consol_done", "reconsol_done"} /\ consol_ret.exc = ""

\* the places <<t, j>> (table, row) of the input rows, in concatenation order
RECURSIVE Origens(_, _)
Origens(dfs, t) ==
    IF t > Len(dfs) THEN <<>>
    ELSE [j \in DOMAIN dfs[t].rows |-> <<t, j>>] \o Origens(dfs, t + 1)

\* the year and the quarter of input row <<t, j>>: the table's own value when it
\* has the column, else the value given for the table
AnoDe(o) ==
    IF "ANO" \in entrada[o[1]].cols THEN entrada[o[1]].rows[o[2]].ANO ELSE anos[o[1]]

TrimestreDe(o) ==
    IF "TRIMESTRE" \in entrada[o[1]].cols
    THEN entrada[o[1]].rows[o[2]].TRIMESTRE ELSE trimestres[o[1]]

ChaveDe(o) == <<entrada[o[1]].rows[o[2]].CNPJ, AnoDe(o), TrimestreDe(o)>>

ChaveSaida(row) == <<row.CNPJ, row.ANO, row.TRIMESTRE>>

\* C7: the table returned by consolidar_trimestres has at most one row per key
\* (CNPJ, ANO, TRIMESTRE), and every key of an input row is the key of exactly
\* one output row.
C7_OneRowPerKey ==
    ConsolReturned =>
        LET out == consol_ret.df.rows
            ins == Origens(entrada, 1)
        IN  /\ \A a, b \in DOMAIN out : ChaveSaida(out[a]) = ChaveSaida(out[b]) => a = b
            /\ \A i \in DOMAIN ins :
                 Cardinality({a \in DOMAIN out : ChaveSaida(out[a]) = ChaveDe(ins[i])}) = 1

C7_Witness ==
    /\ pc = "consol_done" /\ consol_ret.exc = ""
    /\ LET ins == Origens(entrada, 1)
       IN  /\ \E i, j \in DOMAIN ins :
                i # j /\ ins[i][1] # ins[j][1] /\ ChaveDe(ins[i]) = ChaveDe(ins[j])
           /\ Len(ins) = 2
           /\ Len(consol_ret.df.rows) = 1

\* input row o as it enters the concatenation
LinhaDe(o) ==
    LET row == entrada[o[1]].rows[o[2]]
    IN  [c \in entrada[o[1]].cols \cup {"ANO", "TRIMESTRE"} |->
            CASE c = "ANO" -> AnoDe(o) [] c = "TRIMESTRE" -> TrimestreDe(o) [] OTHER -> row[c]]

\* no later row of the concatenation has the key of row i
UltimaDaChave(ins, i) ==
    \A j \in (i + 1)..Len(ins) : ChaveDe(ins[j]) # ChaveDe(ins[i])

RECURSIVE Sobreviventes(_, _)
Sobreviventes(ins, i) ==
    IF i > Len(ins) THEN <<>>
    ELSE (IF UltimaDaChave(ins, i) THEN <<LinhaDe(ins[i])>> ELSE <<>>)
         \o Sobreviventes(ins, i + 1)

\* C8: the output is the concatenation of the input tables without the rows
\* that are followed later by a row with the same key: the last row of each key
\* is kept, the surviving rows keep their order and their field values.
C8_KeepLast ==
    ConsolReturned => consol_ret.df.rows = Sobreviventes(Origens(entrada, 1), 1)

C8_Witness ==
    /\ pc = "consol_done" /\ consol_ret.exc = ""
    /\ LET ins == Origens(entrada, 1)
       IN  \E i, j \in DOMAIN ins :
             /\ i < j /\ ChaveDe(ins[i]) = ChaveDe(ins[j])
             /\ LinhaDe(ins[i]).STATUS_QUALIDADE = CNPJ_INVALIDO
             /\ LinhaDe(ins[j]).STATUS_QUALIDADE = OK
             /\ consol_ret.df.rows = <<LinhaDe(ins[j])>>

\* C9: consolidation is idempotent on its own output: the result given back to
\* consolidar_trimestres, alone or with a copy of itself, comes back as the
\* same set of rows, none added, removed or changed in any field.
C9_Idempotent ==
    (pc = "reconsol_done") =>
        /\ consol_ret.exc = ""
        /\ Range(consol_ret.df.rows) = Range(entrada[1].rows)
        /\ Len(consol_ret.df.rows) = Len(entrada[1].rows)
        /\ consol_ret.df.cols = entrada[1].cols

C9_Witness ==
    /\ pc = "reconsol_done"
    /\ Len(entrada) = 2
    /\ Len(consol_ret.df.rows) = 2
    /\ \E a \in DOMAIN consol_ret.df.rows :
          consol_ret.df.rows[a].STATUS_QUALIDADE = CNPJ_INVALIDO

\* C10: every row of an input table that lacks the year (quarter) column gets
\* the year (quarter) given for that table; a table that has the column keeps
\* its own values and the value given for it is ignored; the caller's tables
\* are not modified.
C10_PeriodInjection ==
    ConsolReturned =>
        LET ins == Origens(entrada, 1)
            enh == enhanced_dfs(entrada, anos, trimestres)
            out == consol_ret.df
        IN  /\ \A i \in DOMAIN ins :
                 /\ enh[ins[i][1]].rows[ins[i][2]].ANO = AnoDe(ins[i])
                 /\ enh[ins[i][1]].rows[ins[i][2]].TRIMESTRE = TrimestreDe(ins[i])
            /\ \A a \in DOMAIN out.rows :
                 /\ out.rows[a].ANO = AnoDe(ins[out.index[a] + 1])
                 /\ out.rows[a].TRIMESTRE = TrimestreDe(ins[out.index[a] + 1])
            /\ dataframes = entrada

C10_Witness ==
    /\ pc = "consol_done" /\ consol_ret.exc = ""
    /\ Len(entrada) = 2
    /\ entrada[1].cols = {"CNPJ", "STATUS_QUALIDADE", "TRIMESTRE"}
    /\ entrada[2].cols = {"CNPJ", "STATUS_QUALIDADE", "ANO"}
    /\ Len(entrada[1].rows) = 1 /\ Len(entrada[2].rows) = 1
    /\ anos = <<2025, 2024>> /\ trimestres = <<2, 1>>
    /\ entrada[1].rows[1].TRIMESTRE = 1 /\ entrada[2].rows[1].ANO = 2023
    /\ dataframes = entrada
    /\ Len(consol_ret.df.rows) = 2
    /\ consol_ret.df.rows[1].ANO = 2025 /\ consol_ret.df.rows[1].TRIMESTRE = 1
    /\ consol_ret.df.rows[2].ANO = 2023 /\ consol_ret.df.rows[2].TRIMESTRE = 1

\* C11: a call of consolidar_trimestres whose three lists do not all have the
\* same length raises ValueError, leaves the caller's tables as they were
\* passed, and leaves df_consolidado as it was before the call.
C11_MismatchFails ==
    [][(pc' = "consol_descasado"
          /\ (Len(entrada') # Len(anos') \/ Len(entrada') # Len(trimestres')))
        => /\ consol_ret'.exc = "ValueError"
           /\ consol_ret'.df = EmptyDf
           /\ dataframes' = entrada'
           /\ df_consolidado' = df_consolidado]_vars

C11_Witness ==
    /\ pc = "consol_descasado"
    /\ Len(entrada) = 2 /\ Len(anos) = 2 /\ Len(trimestres) = 1
    /\ consol_ret.exc = "ValueError"
    /\ df_consolidado # <<>>
    /\ Len(df_consolidado[1].rows) = 2

(***************************************************************************)
(* Claims about enriquecer_com_cadastro, checked under SpecEnrich.         *)
(***************************************************************************)
EnrichDone == pc = "enr_done"

\* the rows of the registry file whose identifier, cleaned, is that of expense
\* row k; none when no registry was loaded
NoCadastro(k) ==
    IF cadastro = <<>> THEN {}
    ELSE {j \in DOMAIN cadastro[1].rows :
            ZFill(OnlyDigits(cadastro[1].rows[j].CNPJ), 14) = enr_df.rows[k].CNPJ}

\* C12: enriquecer_com_cadastro returns one row per input row, in the input's
\* order and with the input's identifier, whatever the registry: an identifier
\* repeated, no match, an empty registry.
C12_RowsPreserved ==
    EnrichDone =>
        /\ Len(enr_ret.rows) = Len(enr_df.rows)
        /\ \A k \in DOMAIN enr_df.rows : enr_ret.rows[k].CNPJ = enr_df.rows[k].CNPJ

C12_Witness ==
    /\ EnrichDone
    /\ cadastro # <<>>
    /\ Len(cadastro[1].rows) = 3
    /\ Len(enr_df.rows) = 2 /\ Len(enr_ret.rows) = 2
    /\ Cardinality(NoCadastro(1)) = 3
    /\ NoCadastro(2) = {}
    /\ enr_ret.rows[1].UF = SP
    /\ enr_ret.rows[2].UF = NaN

\* C13: enriquecer_com_cadastro changes a flag only to SEM_CADASTRO, and only on
\* a row that has no match in the registry and whose flag is OK: a row that has
\* a match and a row whose flag is not OK keep their flag.
C13_OnlyOkUnmatched ==
    EnrichDone =>
        /\ Len(enr_ret.rows) = Len(enr_df.rows)
        /\ \A k \in DOMAIN enr_df.rows :
             LET antes == enr_df.rows[k].STATUS_QUALIDADE
                 depois == enr_ret.rows[k].STATUS_QUALIDADE
             IN  /\ depois # antes =>
                        depois = SEM_CADASTRO /\ antes = OK /\ NoCadastro(k) = {}
                 /\ (NoCadastro(k) # {} \/ antes # OK) => depois = antes

C13_Witness ==
    /\ EnrichDone
    /\ df_operadoras # <<>>
    /\ Len(enr_df.rows) = 2
    /\ NoCadastro(1) = {} /\ NoCadastro(2) = {}
    /\ enr_df.rows[1].STATUS_QUALIDADE = OK
    /\ enr_ret.rows[1].STATUS_QUALIDADE = SEM_CADASTRO
    /\ enr_df.rows[2].STATUS_QUALIDADE = VALOR_SUSPEITO
    /\ enr_ret.rows[2].STATUS_QUALIDADE = VALOR_SUSPEITO

(***************************************************************************)
(* Claims about the flag along executar_pipeline_completo.                 *)
(***************************************************************************)
PipeConsolidated == pc \in {"pipe_enrich", "pipe_enriched"}

\* the flag of file row <<t, j>> when normalize_columns has made the table, after
\* the identifier block of validate_dataframe, and after validate_dataframe
FlagNormalizado(o) == normalize_columns(arquivos[o[1]]).rows[o[2]].STATUS_QUALIDADE

FlagIdentificador(o) ==
    ValidaCnpj(normalize_columns(arquivos[o[1]])).rows[o[2]].STATUS_QUALIDADE

FlagValidado(o) == entrada[o[1]].rows[o[2]].STATUS_QUALIDADE

\* the flags of the record at place k of the final table, stage by stage: its
\* index label in the consolidated table is its place in the concatenation
FlagsDe(k) ==
    LET o == Origens(entrada, 1)[consol_ret.df.index[k] + 1]
    IN  <<FlagNormalizado(o), FlagIdentificador(o), FlagValidado(o),
          consol_ret.df.rows[k].STATUS_QUALIDADE,
          df_pipeline.rows[k].STATUS_QUALIDADE>>

\* C4: in a run of executar_pipeline_completo, every record of the final table
\* is one record of the consolidated table, and along validate, consolidate and
\* enrich, once its flag is not OK every later stage leaves the flag as it is.
C4_FirstProblemKept ==
    PipeConsolidated =>
        /\ Len(df_pipeline.rows) = Len(consol_ret.df.rows)
        /\ \A k \in DOMAIN df_pipeline.rows :
             /\ df_pipeline.rows[k].CNPJ = consol_ret.df.rows[k].CNPJ
             /\ LET f == FlagsDe(k)
                IN  \A a, b \in DOMAIN f : (a < b /\ f[a] # OK) => f[b] = f[a]

C4_Witness ==
    /\ pc = "pipe_enriched"
    /\ df_operadoras # <<>>
    /\ \E k \in DOMAIN df_pipeline.rows :
          /\ FlagsDe(k)[3] = VALOR_SUSPEITO
          /\ df_pipeline.rows[k].UF = NaN
          /\ df_pipeline.rows[k].STATUS_QUALIDADE = VALOR_SUSPEITO
    /\ \E k \in DOMAIN df_pipeline.rows :
          /\ FlagsDe(k)[4] = OK
          /\ df_pipeline.rows[k].STATUS_QUALIDADE = SEM_CADASTRO

(***************************************************************************)
(* Claims about calcular_agregacoes, checked under SpecAgg.                *)
(***************************************************************************)
AggDone == pc = "agg_done"

NoAmountMissing == \A i \in DOMAIN agg_entrada.rows : agg_entrada.rows[i].VALOR.kind = "num"

\* C17: when no amount of the table is missing, the totals of the groups add up
\* to the sum of the amounts of all rows, and the record counts of the groups
\* add up to the number of rows.
C17_SumPreserved ==
    (AggDone /\ NoAmountMissing) =>
        /\ SumSeq([g \in DOMAIN agg_ret.rows |-> agg_ret.rows[g].total])
             = SumSeq([i \in DOMAIN agg_entrada.rows |-> agg_entrada.rows[i].VALOR.val])
        /\ SumSeq([g \in DOMAIN agg_ret.rows |-> agg_ret.rows[g].quantidade_registros])
             = Len(agg_entrada.rows)

\* the name and the region under which row i of the table passed is to be
\* grouped: its name, the identifier when the name is missing; its region, the
\* sentinel when the region is missing
NomeEsperado(i) ==
    LET row == agg_entrada.rows[i]
    IN  IF "RAZAO_SOCIAL" \in agg_entrada.cols
        THEN IF row.RAZAO_SOCIAL = NaN THEN row.CNPJ ELSE row.RAZAO_SOCIAL
        ELSE IF "RAZAO_SOCIAL_CADASTRO" \in agg_entrada.cols
             THEN row.RAZAO_SOCIAL_CADASTRO ELSE row.CNPJ

UFEsperada(i) ==
    LET row == agg_entrada.rows[i]
    IN  IF "UF" \in agg_entrada.cols /\ row.UF # NaN THEN row.UF ELSE NA_UF

\* C18: no aggregate row has a missing name or region, and every row of the
\* table is in exactly one group: that of its name, or of its identifier when
\* the name is missing, and of its region, or of "N/A" when it is missing.
C18_FallbackGroups ==
    AggDone =>
        /\ \A g \in DOMAIN agg_ret.rows :
              agg_ret.rows[g].RAZAO_SOCIAL # NaN /\ agg_ret.rows[g].UF # NaN
        /\ \A i \in DOMAIN agg_entrada.rows :
              Cardinality({g \in DOMAIN agg_ret.rows :
                              /\ agg_ret.rows[g].RAZAO_SOCIAL = NomeEsperado(i)
                              /\ agg_ret.rows[g].UF = UFEsperada(i)}) = 1

\* the rows of the table, as the call left it, that are in group g
Contribuintes(g) ==
    {i \in DOMAIN agg_df.rows :
        /\ agg_df.rows[i].RAZAO_SOCIAL = agg_ret.rows[g].RAZAO_SOCIAL
        /\ agg_df.rows[i].UF = agg_ret.rows[g].UF}

\* C19: an aggregate row formed from exactly one row of the table has the
\* standard deviation 0, not a missing value.
C19_SingleRowStdZero ==
    AggDone =>
        \A g \in DOMAIN agg_ret.rows :
            Cardinality(Contribuintes(g)) = 1 => agg_ret.rows[g].desvio_padrao = Num(0)

C19_Witness ==
    /\ AggDone
    /\ Len(agg_entrada.rows) = 2 /\ NoAmountMissing
    /\ Len(agg_ret.rows) = 2
    /\ \A g \in DOMAIN agg_ret.rows :
          /\ Cardinality(Contribuintes(g)) = 1
          /\ agg_ret.rows[g].quantidade_registros = 1
          /\ agg_ret.rows[g].desvio_padrao = Num(0)

(***************************************************************************)
(* Claims about a run of executar_pipeline_completo, checked under         *)
(* SpecPipe.                                                               *)
(***************************************************************************)
\* the run is past the registry step, or has raised
PastRegistry == pc \in {"pipe_enriched", "pipe_done", "pipe_raised"}

\* C14: in a run that has consolidated its files and finds no registry file, or
\* one that cannot be read, the run does not raise, no registry is joined, the
\* table keeps its rows and flags, and a finished run has written two files.
C14_RegistrySkipped ==
    (PastRegistry /\ consol_ret.exc = "" /\ (cadastro = <<>> \/ ~cadastro_legivel)) =>
        /\ pc # "pipe_raised"
        /\ df_operadoras = <<>>
        /\ Len(df_pipeline.rows) = Len(consol_ret.df.rows)
        /\ \A k \in DOMAIN df_pipeline.rows :
              /\ df_pipeline.rows[k].CNPJ = consol_ret.df.rows[k].CNPJ
              /\ df_pipeline.rows[k].STATUS_QUALIDADE = consol_ret.df.rows[k].STATUS_QUALIDADE
        /\ pc = "pipe_done" => Len(saida) = 2

\* C15: a run in which read_file fails on some expense file and not on all of
\* them does not raise out of the loop over the files: it goes on to
\* consolidate the files that were read.
C15_FileFailureIsolated ==
    (falha_leitura # {} /\ falha_leitura # DOMAIN arquivos) =>
        ~(pc = "pipe_raised" /\ consol_ret = NotCalled)

\* the key of row j of expense file t: the identifier as validate_cnpj cleans
\* it, the file's year and quarter, or those given for the file
ChaveArquivo(t, j) ==
    LET arq == arquivos[t]
        row == arq.rows[j]
    IN  <<validate_cnpj(row[find_column(arq, "CNPJ")]).limpo,
          IF find_column(arq, "ANO") # "" THEN row[find_column(arq, "ANO")] ELSE anos[t],
          IF find_column(arq, "TRIMESTRE") # ""
          THEN row[find_column(arq, "TRIMESTRE")] ELSE trimestres[t]>>

ChavesArquivos ==
    UNION {{ChaveArquivo(t, j) : j \in DOMAIN arquivos[t].rows} : t \in DOMAIN arquivos}

\* the consolidated file the run wrote
Consolidado == saida[1]

\* C16: in a finished run the consolidated file has exactly one line for every
\* key (identifier, year, quarter) of a row of an expense file, whatever the
\* flag of the row, and no other line: the rows left out are earlier rows of a
\* key that is in the file.
C16_NoRowRejected ==
    pc = "pipe_done" =>
        /\ Consolidado.nome = "consolidado_despesas.zip"
        /\ \A key \in ChavesArquivos :
              Cardinality({k \in DOMAIN Consolidado.rows :
                              ChaveSaida(Consolidado.rows[k]) = key}) = 1
        /\ Len(Consolidado.rows) = Cardinality(ChavesArquivos)

C16_Witness ==
    /\ pc = "pipe_done"
    /\ Len(arquivos) = 2
    /\ Len(Consolidado.rows) = 2
    /\ {Consolidado.rows[k].STATUS_QUALIDADE : k \in DOMAIN Consolidado.rows}
          = {CNPJ_INVALIDO, SEM_CADASTRO}

\* the aggregated file the run wrote
Agregado == saida[2]

\* the amount of the only row of expense file t
ValorArquivo(t) ==
    to_numeric(arquivos[t].rows[1][find_column(arquivos[t], "VALOR")])

\* two files of one row each for 11444777000161, 1000 in quarter 1 and 1200 in
\* quarter 2 of 2024, and a registry whose first row is that identifier with
\* region SP
DoisTrimestres ==
    /\ Len(arquivos) = 2
    /\ \A t \in 1..2 : Len(arquivos[t].rows) = 1 /\ ChaveArquivo(t, 1) = <<CnpjTeste, 2024, t>>
    /\ ValorArquivo(1) = Num(1000) /\ ValorArquivo(2) = Num(1200)
    /\ cadastro # <<>> /\ cadastro_legivel
    /\ Len(cadastro[1].rows) >= 1
    /\ ZFill(OnlyDigits(cadastro[1].rows[1].CNPJ), 14) = CnpjTeste
    /\ cadastro[1].rows[1].UF = SP

\* C20: a finished run on those two files and that registry has written a
\* consolidated file of two lines, both flagged OK, and an aggregated file of
\* one line with region SP, total 2200, mean 1100 and count 2.
C20_EndToEnd ==
    (DoisTrimestres /\ pc \in {"pipe_done", "pipe_raised"}) =>
        /\ pc = "pipe_done"
        /\ Len(Consolidado.rows) = 2
        /\ \A k \in 1..2 : Consolidado.rows[k].STATUS_QUALIDADE = OK
        /\ Len(Agregado.rows) = 1
        /\ Agregado.rows[1].UF = SP
        /\ Agregado.rows[1].total = 2200
        /\ Agregado.rows[1].media.kind = "frac"
        /\ Agregado.rows[1].media.num = 1100 * Agregado.rows[1].media.den
        /\ Agregado.rows[1].quantidade_registros = 2

C20_Witness ==
    /\ pc = "pipe_done"
    /\ DoisTrimestres
    /\ Len(cadastro[1].rows) = 1
    /\ cadastro[1].rows[1].CNPJ = Formatado(CnpjTeste)
    /\ Consolidado.rows[1].VALOR = Num(1000)
    /\ Consolidado.rows[2].VALOR = Num(1200)
    /\ Agregado.rows[1].total = 2200
    /\ stats = <<[total_registros |-> 2, total_grupos |-> 1, cnpjs_unicos |-> 1, ufs |-> 1]>>

\* C21: calcular_agregacoes leaves the table it is given as it was: the
\* consolidated file the run writes after the aggregation is the export of the
\* table as enrichment left it, with the same columns, no name column added and
\* the region of a row with no registry match still missing.
C21_AggregationLeavesTable ==
    [][pc' = "pipe_done" =>
          /\ df_pipeline' = df_pipeline
          /\ saida'[1] = exportar_csv(df_pipeline, "consolidado_despesas.csv", TRUE)]_vars

(***************************************************************************)
(* The store: tables despesas and despesas_agregadas                       *)
(*   src/src/infrastructure/database/models.py                             *)
(*   src/src/infrastructure/database/repositories.py                       *)
(* A table is the sequence of its rows in the order of their insertion; a  *)
(* row is a record with its primary key id.                                *)
(***************************************************************************)
\* the most rows of one batch
MaxBatch == 2
\* the most committed save_batch calls of one run
MaxSaves == 3

\* id of an ORM object that was given none
SemId == 0

\* DespesaORM.from_entity: every field but id                 models.py:178
DespesaORM_from_entity(entity) ==
    [id |-> SemId, cnpj |-> entity.cnpj, ano |-> entity.ano,
     trimestre |-> entity.trimestre, valor |-> entity.valor]

\* DespesaAgregadaORM(...): every field but id          repositories.py:296
DespesaAgregadaORM(a) ==
    [id |-> SemId, razao_social |-> a.razao_social, uf |-> a.uf, total |-> a.total]

\* INSERT of objects in their order: id is the only key of either table, so
\* no row is refused or replaced, and an object with no id takes the next
\* AUTO_INCREMENT value                                  models.py:121, 208
Insert(tabela, proximo, orm_objects) ==
    tabela \o [i \in 1..Len(orm_objects) |->
                  [orm_objects[i] EXCEPT !.id = proximo + i - 1]]

\* Session.bulk_save_objects: an object that was not loaded from the table
\* is inserted                                           repositories.py:205
bulk_save_objects(tabela, proximo, orm_objects) == Insert(tabela, proximo, orm_objects)

\* DespesaRepository.save_batch, committed: the table after it
\*                                                       repositories.py:200
DespesaRepository_save_batch(tabela, proximo, lista) ==
    LET orm_objects == [i \in 1..Len(lista) |-> DespesaORM_from_entity(lista[i])]
    IN  bulk_save_objects(tabela, proximo, orm_objects)

delete_none(tabela) == tabela

\* Query.delete with no filter: no row is left           repositories.py:292
delete_all(tabela) == <<>>

\* DespesaAgregadaRepository.save_batch, committed: the table after it
\*                                                       repositories.py:283
DespesaAgregadaRepository_save_batch(tabela, proximo, agregadas) ==
    LET limpa == delete_all(tabela)
        orm_objects == [i \in 1..Len(agregadas) |-> DespesaAgregadaORM(agregadas[i])]
    IN  Insert(limpa, proximo, orm_objects)

\* expense entities: two quarters of one operator
DespesasAmostra ==
    {[cnpj |-> CnpjTeste, ano |-> 2024, trimestre |-> 1, valor |-> 1000],
     [cnpj |-> CnpjTeste, ano |-> 2024, trimestre |-> 2, valor |-> 1200]}

\* aggregate entities: one with a region, one with none
AgregadasAmostra ==
    {[razao_social |-> Nome1, uf |-> SP, total |-> 2200],
     [razao_social |-> Nome2, uf |-> NaN, total |-> 500]}

Lotes(S) == UNION {[1..n -> S] : n \in 0..MaxBatch}

\* one repository and its table in a run; the other table stays empty
InitStore ==
    /\ pc \in {"store_despesas", "store_agregadas"}
    /\ IdleExtra /\ IdleEtl

\* one call of DespesaRepository.save_batch; when commit raises, the
\* transaction is not applied
SaveDespesas ==
    /\ pc = "store_despesas"
    /\ lote.chamadas < MaxSaves
    /\ \E lista \in Lotes(DespesasAmostra), committed \in BOOLEAN :
         IF committed
           THEN /\ despesas' = DespesaRepository_save_batch(despesas, autoinc.despesas, lista)
                /\ autoinc' = [autoinc EXCEPT !.despesas = @ + Len(lista)]
                /\ lote' = [chamadas |-> lote.chamadas + 1, registros |-> lista]
           ELSE UNCHANGED <<despesas, autoinc, lote>>
    /\ UNCHANGED <<pc, despesas_agregadas, foraStore, etlVars>>

\* one call of DespesaAgregadaRepository.save_batch
SaveAgregadas ==
    /\ pc = "store_agregadas"
    /\ lote.chamadas < MaxSaves
    /\ \E agregadas \in Lotes(AgregadasAmostra), committed \in BOOLEAN :
         IF committed
           THEN /\ despesas_agregadas' =
                     DespesaAgregadaRepository_save_batch(
                         despesas_agregadas, autoinc.despesas_agregadas, agregadas)
                /\ autoinc' = [autoinc EXCEPT !.despesas_agregadas = @ + Len(agregadas)]
                /\ lote' = [chamadas |-> lote.chamadas + 1, registros |-> agregadas]
           ELSE UNCHANGED <<despesas_agregadas, autoinc, lote>>
    /\ UNCHANGED <<pc, despesas, foraStore, etlVars>>

NextStore ==
    \/ SaveDespesas
    \/ SaveAgregadas

SpecStore == InitStore /\ [][NextStore]_vars

\* C22: saving with DespesaRepository.save_batch the batch that the last
\* committed call saved leaves the number of stored expense rows as it was:
\* the rows whose identifier and period are stored already are updated, none
\* is added.
C22_SameBatchTwice ==
    [][(/\ pc = "store_despesas"
        /\ lote.chamadas > 0
        /\ lote'.chamadas = lote.chamadas + 1
        /\ lote'.registros = lote.registros)
       => Len(despesas') = Len(despesas)]_vars

\* the row of the table without its id
SemChave(row) == [c \in DOMAIN row \ {"id"} |-> row[c]]

\* C23: after any sequence of committed DespesaAgregadaRepository.save_batch
\* calls the table despesas_agregadas holds one row per record of the last
\* batch saved, in its order and with its values, and no other row.
C23_FullReplace ==
    (pc = "store_agregadas" /\ lote.chamadas > 0)
    => /\ Len(despesas_agregadas) = Len(lote.registros)
       /\ \A i \in 1..Len(lote.registros) :
             SemChave(despesas_agregadas[i]) = lote.registros[i]
       /\ \A i, j \in 1..Len(despesas_agregadas) :
             i # j => despesas_agregadas[i].id # despesas_agregadas[j].id

\* a third batch of one record has replaced earlier batches of two
C23_Witness ==
    /\ pc = "store_agregadas"
    /\ lote.chamadas = 3
    /\ Len(lote.registros) = 1
    /\ Len(despesas_agregadas) = 1
    /\ despesas_agregadas[1].id = 5

(***************************************************************************)
(* TTLCache and @cached                   src/src/infrastructure/cache.py  *)
(* A Python value that may be None is <<>> for None and <<v>> for v; a     *)
(* datetime is a number of units of time.                                  *)
(***************************************************************************)
\* the clock stops at MaxAgora
MaxAgora == 4
\* the most calls of get
MaxGets == 3

None == <<>>
Algum(v) == <<v>>

\* timedelta(minutes=ttl_minutes), in units of time               cache.py:26
ttl == 2

\* the values given to set: two values and None
Dados == {Algum("a"), Algum("b"), None}

\* TTLCache._is_expired                                           cache.py:70
is_expired_ge(c, now) ==
    IF c.timestamp = None THEN TRUE ELSE now - c.timestamp[1] >= ttl

is_expired(c, now) ==
    IF c.timestamp = None THEN TRUE ELSE now - c.timestamp[1] > ttl

\* TTLCache.get: the cache after it and what it returns           cache.py:34
TTLCache_get(c, now) ==
    IF c.data = None
      THEN [cache |-> [c EXCEPT !.misses = @ + 1], ret |-> None]
    ELSE IF is_expired(c, now)
      THEN [cache |-> [c EXCEPT !.data = None, !.timestamp = None, !.misses = @ + 1],
            ret |-> None]
    ELSE [cache |-> [c EXCEPT !.hits = @ + 1], ret |-> c.data]

\* TTLCache.set                                                   cache.py:51
TTLCache_set(c, data, now) == [c EXCEPT !.data = data, !.timestamp = Algum(now)]

\* TTLCache.invalidate                                            cache.py:58
TTLCache_invalidate(c) == [c EXCEPT !.data = None, !.timestamp = None]

\* TTLCache(ttl_minutes=ttl): one caller                          cache.py:24
InitCache ==
    /\ pc = "cache"
    /\ IdleExtra /\ IdleEtl

CacheSet ==
    /\ pc = "cache"
    /\ \E data \in Dados :
         /\ cache' = TTLCache_set(cache, data, agora)
         /\ ultimo_set' = <<[valor |-> data, quando |-> agora]>>
    /\ UNCHANGED <<pc, agora, get_ret, wrapVars, threadVars, foraCache, etlVars>>

CacheGet ==
    /\ pc = "cache"
    /\ cache.hits + cache.misses < MaxGets
    /\ cache' = TTLCache_get(cache, agora).cache
    /\ get_ret' = TTLCache_get(cache, agora).ret
    /\ UNCHANGED <<pc, agora, ultimo_set, wrapVars, threadVars, foraCache, etlVars>>

CacheInvalidate ==
    /\ pc \in {"cache", "cached"}
    /\ cache' = TTLCache_invalidate(cache)
    /\ ultimo_set' = <<>>
    /\ UNCHANGED <<pc, agora, get_ret, wrapVars, threadVars, foraCache, etlVars>>

\* time passes
Tick ==
    /\ pc \in {"cache", "cached", "threads"}
    /\ agora < MaxAgora
    /\ agora' = agora + 1
    /\ UNCHANGED <<pc, cache, get_ret, ultimo_set, wrapVars, threadVars, foraCache, etlVars>>

NextCache ==
    \/ CacheSet
    \/ CacheGet
    \/ CacheInvalidate
    \/ Tick

SpecCache == InitCache /\ [][NextCache]_vars

\* the step is a call of get: it is counted as a hit or as a miss
PassoGet == cache'.hits + cache'.misses = cache.hits + cache.misses + 1

\* a set was made, no invalidate after it, and the TTL is not exceeded
Vigente == ultimo_set # <<>> /\ agora - ultimo_set[1].quando <= ttl

InitCached ==
    /\ pc = "cached"
    /\ IdleExtra /\ IdleEtl

\* one call of wrapper: the cached value when get returns one, else the
\* function is called and its result given to set               cache.py:138
ChamarWrapper ==
    /\ pc = "cached"
    /\ cache.hits + cache.misses < MaxGets
    /\ LET g == TTLCache_get(cache, agora)
       IN  IF g.ret # None
             THEN /\ cache' = g.cache
                  /\ wrap_ret' = g.ret
                  /\ UNCHANGED <<call_count, ultimo_set>>
             ELSE \E result \in Dados :
                    /\ call_count' = call_count + 1
                    /\ cache' = TTLCache_set(g.cache, result, agora)
                    /\ wrap_ret' = result
                    /\ ultimo_set' = <<[valor |-> result, quando |-> agora]>>
    /\ UNCHANGED <<pc, agora, get_ret, threadVars, foraCache, etlVars>>

NextCached ==
    \/ ChamarWrapper
    \/ CacheInvalidate
    \/ Tick

SpecCached == InitCached /\ [][NextCached]_vars

\* C25: whatever the function returned, a call of the wrapper made after an
\* earlier call returned, within the TTL and with no invalidation between
\* them, returns the earlier result and does not call the function; the first
\* call after the entry expired calls the function once and caches its result.
C25_ResultCached ==
    [][(pc = "cached" /\ PassoGet /\ ultimo_set # <<>>)
       => IF Vigente
            THEN call_count' = call_count /\ wrap_ret' = ultimo_set[1].valor
            ELSE call_count' = call_count + 1 /\ cache'.data = wrap_ret']_vars

(***************************************************************************)
(* TTLCache used by several threads                          cache.py:14   *)
(* A method is entered, takes _lock, runs its body statement by statement  *)
(* and releases _lock; `x += 1` is a read and a write.                     *)
(***************************************************************************)
\* the threads
NThreads == 2
\* the most calls that the threads begin together
MaxCalls == 3

Threads == 1..NThreads

\* the values the writers give to set
Escritos == {Algum("a"), Algum("b")}

Parado == [pc |-> "idle", op |-> "", arg |-> None, ramo |-> "", tmp |-> 0,
           ret |-> None, falhou |-> FALSE]

LockSempreLivre(l) == TRUE

\* threading.Lock: acquire returns when no thread holds it      cache.py:29
LockLivre(l) == l = 0

InitThreads ==
    /\ pc = "threads"
    /\ lock = 0
    /\ th = [t \in Threads |-> Parado]
    /\ obs = [iniciados |-> {}, valores |-> 0, nones |-> 0, chamadas |-> 0]
    /\ IdleObj /\ IdleStore /\ IdleCache /\ IdleWrap /\ IdleDl /\ IdleTri /\ IdleEtl

foraThreads == <<pc, get_ret, ultimo_set, wrapVars, foraCache, etlVars>>

\* a thread calls get, set(data) or invalidate
Begin(t) ==
    /\ pc = "threads"
    /\ th[t].pc = "idle"
    /\ obs.chamadas < MaxCalls
    /\ \E op \in {"get", "set", "invalidate"} :
         \E data \in (IF op = "set" THEN Escritos ELSE {None}) :
           /\ th' = [th EXCEPT ![t] = [Parado EXCEPT !.pc = "acquire", !.op = op,
                                                      !.arg = data, !.ret = th[t].ret]]
           /\ obs' = [obs EXCEPT !.chamadas = @ + 1,
                                 !.iniciados = IF op = "set" THEN @ \cup {data} ELSE @]
    /\ UNCHANGED <<lock, cache, agora, foraThreads>>

\* with self._lock:                                     cache.py:36, 53, 64
Acquire(t) ==
    /\ pc = "threads"
    /\ th[t].pc = "acquire"
    /\ LockLivre(lock)
    /\ lock' = t
    /\ th' = [th EXCEPT ![t].pc = CASE th[t].op = "get" -> "data"
                                    [] th[t].op = "set" -> "set"
                                    [] th[t].op = "invalidate" -> "invalidate"]
    /\ UNCHANGED <<obs, cache, agora, foraThreads>>

\* get: if self._data is None                                     cache.py:37
GetData(t) ==
    /\ pc = "threads"
    /\ th[t].pc = "data"
    /\ th' = [th EXCEPT ![t] = IF cache.data = None
                                 THEN [@ EXCEPT !.pc = "load", !.ramo = "miss"]
                                 ELSE [@ EXCEPT !.pc = "stamp"]]
    /\ UNCHANGED <<lock, obs, cache, agora, foraThreads>>

\* _is_expired: if self._timestamp is None; an expired entry is cleared
\*                                                        cache.py:41, 72
GetStamp(t) ==
    /\ pc = "threads"
    /\ th[t].pc = "stamp"
    /\ IF cache.timestamp = None
         THEN /\ cache' = [cache EXCEPT !.data = None, !.timestamp = None]
              /\ th' = [th EXCEPT ![t] = [@ EXCEPT !.pc = "load", !.ramo = "miss"]]
         ELSE /\ th' = [th EXCEPT ![t].pc = "elapsed"]
              /\ UNCHANGED cache
    /\ UNCHANGED <<lock, obs, agora, foraThreads>>

\* _is_expired: datetime.now() - self._timestamp > self._ttl, a TypeError
\* when _timestamp is None by now                         cache.py:41, 74
GetElapsed(t) ==
    /\ pc = "threads"
    /\ th[t].pc = "elapsed"
    /\ IF cache.timestamp = None
         THEN /\ th' = [th EXCEPT ![t] = [@ EXCEPT !.pc = "release", !.falhou = TRUE]]
              /\ UNCHANGED cache
         ELSE IF agora - cache.timestamp[1] > ttl
           THEN /\ cache' = [cache EXCEPT !.data = None, !.timestamp = None]
                /\ th' = [th EXCEPT ![t] = [@ EXCEPT !.pc = "load", !.ramo = "miss"]]
           ELSE /\ th' = [th EXCEPT ![t] = [@ EXCEPT !.pc = "load", !.ramo = "hit"]]
                /\ UNCHANGED cache
    /\ UNCHANGED <<lock, obs, agora, foraThreads>>

\* self._misses += 1 / self._hits += 1: the read          cache.py:38, 45, 47
CountLoad(t) ==
    /\ pc = "threads"
    /\ th[t].pc = "load"
    /\ th' = [th EXCEPT ![t] = [@ EXCEPT !.pc = "store",
                 !.tmp = IF th[t].ramo = "hit" THEN cache.hits ELSE cache.misses]]
    /\ UNCHANGED <<lock, obs, cache, agora, foraThreads>>

\* the write, and the return value                        cache.py:39, 46, 49
CountStore(t) ==
    /\ pc = "threads"
    /\ th[t].pc = "store"
    /\ cache' = IF th[t].ramo = "hit" THEN [cache EXCEPT !.hits = th[t].tmp + 1]
                                       ELSE [cache EXCEPT !.misses = th[t].tmp + 1]
    /\ th' = [th EXCEPT ![t] = [@ EXCEPT !.pc = "release",
                 !.ret = IF th[t].ramo = "hit" THEN cache.data ELSE None]]
    /\ UNCHANGED <<lock, obs, agora, foraThreads>>

\* set: the body                                                  cache.py:54
SetBody(t) ==
    /\ pc = "threads"
    /\ th[t].pc = "set"
    /\ cache' = TTLCache_set(cache, th[t].arg, agora)
    /\ th' = [th EXCEPT ![t].pc = "release"]
    /\ UNCHANGED <<lock, obs, agora, foraThreads>>

\* invalidate: the body                                           cache.py:65
InvalidateBody(t) ==
    /\ pc = "threads"
    /\ th[t].pc = "invalidate"
    /\ cache' = TTLCache_invalidate(cache)
    /\ th' = [th EXCEPT ![t].pc = "release"]
    /\ UNCHANGED <<lock, obs, agora, foraThreads>>

\* the end of the with block: the lock is released and the call returns
Release(t) ==
    /\ pc = "threads"
    /\ th[t].pc = "release"
    /\ lock' = 0
    /\ th' = [th EXCEPT ![t] = [Parado EXCEPT !.ret = th[t].ret, !.falhou = th[t].falhou]]
    /\ obs' = IF th[t].op # "get" \/ th[t].falhou THEN obs
              ELSE IF th[t].ret # None THEN [obs EXCEPT !.valores = @ + 1]
              ELSE [obs EXCEPT !.nones = @ + 1]
    /\ UNCHANGED <<cache, agora, foraThreads>>

NextThreads ==
    \/ \E t \in Threads : Begin(t)
    \/ \E t \in Threads : Acquire(t)
    \/ \E t \in Threads : GetData(t)
    \/ \E t \in Threads : GetStamp(t)
    \/ \E t \in Threads : GetElapsed(t)
    \/ \E t \in Threads : CountLoad(t)
    \/ \E t \in Threads : CountStore(t)
    \/ \E t \in Threads : SetBody(t)
    \/ \E t \in Threads : InvalidateBody(t)
    \/ \E t \in Threads : Release(t)
    \/ Tick

SpecThreads == InitThreads /\ [][NextThreads]_vars

\* C26: under every interleaving of get, set and invalidate by several
\* threads no call fails, every get returns None or a value given to a set
\* that began before the get returned, and once every call has returned
\* _hits is the number of gets that returned a value and _misses the number
\* of gets that returned None.
C26_ThreadSafe ==
    /\ \A t \in DOMAIN th : ~th[t].falhou
    /\ \A t \in DOMAIN th : th[t].ret \in {None} \cup obs.iniciados
    /\ (\A t \in DOMAIN th : th[t].pc = "idle")
       => (cache.hits = obs.valores /\ cache.misses = obs.nones)

\* three calls by two threads have returned: a get that returned a value,
\* one that returned None
C26_Witness ==
    /\ pc = "threads"
    /\ \A t \in Threads : th[t].pc = "idle"
    /\ obs.chamadas = 3
    /\ th[1].ret # None /\ th[2].ret = None
    /\ cache.hits = 1 /\ cache.misses = 1

(***************************************************************************)
(* ANSDownloader._download_file              src/src/etl/downloader.py:87  *)
(* One url and one filename; the remote file is MaxChunks chunks of        *)
(* iter_content long, and the file data_dir / filename holds the chunks    *)
(* written to it.                                                          *)
(***************************************************************************)
\* the most calls of _download_file for the filename
MaxDownloads == 2
\* the chunks of the remote file
MaxChunks == 2

MAX_RETRIES == 3

\* what one turn of the loop can come to: the download is written whole;
\* session.get or raise_for_status raises a RequestException before the file
\* is opened; iter_content raises one after open(filepath, "wb") and some of
\* the chunks; write raises an OSError after some        downloader.py:116
Desfechos ==
    {[tipo |-> "ok", chunks |-> MaxChunks], [tipo |-> "request", chunks |-> 0]}
    \cup [tipo : {"stream", "os"}, chunks : 0..(MaxChunks - 1)]

\* the file after the turn: open(filepath, "wb") creates or truncates it and
\* every chunk received is written                        downloader.py:131
DiscoApos(d, desfecho) ==
    IF desfecho.tipo = "request" THEN d
    ELSE [existe |-> TRUE, chunks |-> desfecho.chunks]

\* the file holds the whole remote file
Completo(d) == d.existe /\ d.chunks = MaxChunks

\* except requests.RequestException                          downloader.py:143
Capturada(desfecho) == desfecho.tipo \in {"request", "stream"}

SempreRepete(a) == FALSE

\* if attempt == MAX_RETRIES: raise                          downloader.py:146
UltimaTentativa(a) == a = MAX_RETRIES

InitDownload ==
    /\ pc = "dl_idle"
    /\ IdleExtra /\ IdleEtl

\* the call: the path at once when the file exists           downloader.py:109
ChamarDownload ==
    /\ pc = "dl_idle"
    /\ dl_hist.chamadas < MaxDownloads
    /\ dl_hist' = [chamadas |-> dl_hist.chamadas + 1, tentativas |-> <<>>]
    /\ IF disco.existe
         THEN dl_ret' = "path" /\ UNCHANGED <<pc, attempt>>
         ELSE dl_ret' = "running" /\ pc' = "dl_loop" /\ attempt' = 1
    /\ UNCHANGED <<disco, foraDl, etlVars>>

\* one turn of for attempt in range(1, MAX_RETRIES + 1)      downloader.py:116
Tentativa ==
    /\ pc = "dl_loop"
    /\ \E desfecho \in Desfechos :
         /\ disco' = DiscoApos(disco, desfecho)
         /\ dl_hist' = [dl_hist EXCEPT !.tentativas = Append(@, desfecho)]
         /\ IF desfecho.tipo = "ok"
              THEN dl_ret' = "path" /\ pc' = "dl_idle" /\ attempt' = 0
            ELSE IF ~Capturada(desfecho)
              THEN dl_ret' = "OSError" /\ pc' = "dl_idle" /\ attempt' = 0
            ELSE IF UltimaTentativa(attempt)
              THEN dl_ret' = "RequestException" /\ pc' = "dl_idle" /\ attempt' = 0
            ELSE attempt' = attempt + 1 /\ UNCHANGED <<pc, dl_ret>>
    /\ UNCHANGED <<foraDl, etlVars>>

NextDownload ==
    \/ ChamarDownload
    \/ Tentativa

SpecDownload == InitDownload /\ [][NextDownload]_vars

Ultima(s) == s[Len(s)]

\* C27: a call that finds no file makes at most MAX_RETRIES attempts one
\* after the other: every attempt but the last has failed, the call returns
\* the path right after the first attempt that succeeds, and after the third
\* failed attempt in a row it raises that failure and returns no path.
C27_AtMostThreeAttempts ==
    LET t == dl_hist.tentativas
    IN  /\ Len(t) <= MAX_RETRIES
        /\ \A i \in 1..(Len(t) - 1) : t[i].tipo # "ok"
        /\ (t # <<>> /\ Ultima(t).tipo = "ok") => (dl_ret = "path" /\ pc = "dl_idle")
        /\ (t # <<>> /\ dl_ret = "path") => Ultima(t).tipo = "ok"
        /\ (Len(t) = MAX_RETRIES /\ Ultima(t).tipo # "ok")
           => (pc = "dl_idle" /\ dl_ret = (IF Capturada(Ultima(t))
                                             THEN "RequestException" ELSE "OSError"))
        /\ pc = "dl_loop" => attempt = Len(t) + 1

\* two attempts failed and the third wrote the file
C27_Witness ==
    /\ Len(dl_hist.tentativas) = MAX_RETRIES
    /\ dl_hist.tentativas[1].tipo = "request"
    /\ dl_hist.tentativas[2].tipo = "stream"
    /\ dl_hist.tentativas[3].tipo = "ok"
    /\ dl_ret = "path"
    /\ Completo(disco)

\* C28: every path that _download_file returns, over any sequence of calls
\* for the filename, is of a file that a successful attempt wrote whole: an
\* attempt that failed after it began to write never makes this call or a
\* later one return the partly written file.
C28_NoPartialFile ==
    dl_ret = "path" => Completo(disco)

(***************************************************************************)
(* The value object CNPJ                     src/src/domain/entities.py:43 *)
(***************************************************************************)
\* Field(min_length=14, max_length=14, pattern=r"^\d{14}$") on a str
\*                                                          entities.py:48
CampoValor(v) == v # NaN /\ Len(v) = 14 /\ \A i \in 1..Len(v) : IsDigit(v[i])

CNPJ_pesos_1 == <<5, 4, 3, 2, 9, 8, 7, 6, 5, 4, 3, 2>>
CNPJ_pesos_2 == <<6, 5, 4, 3, 2, 9, 8, 7, 6, 5, 4, 3, 2>>

\* 0 if resto < 2 else 11 - resto                        entities.py:66, 72
CNPJ_digito(soma) == LET resto == soma % 11 IN IF resto < 2 THEN 0 ELSE 11 - resto

SequenciaRepetidaNunca(numeros) == FALSE

\* len(set(numeros)) == 1                                   entities.py:60
SequenciaRepetida(numeros) == Cardinality(Range(numeros)) = 1

\* CNPJ.validar_cnpj: the value kept, or the ValueError      entities.py:50
validar_cnpj(v) ==
    LET numeros == OnlyDigits(v)
    IN  IF Len(numeros) # 14
          THEN [aceito |-> FALSE, valor |-> <<>>]
        ELSE IF SequenciaRepetida(numeros)
          THEN [aceito |-> FALSE, valor |-> <<>>]
        ELSE
          LET digito_1 == CNPJ_digito(SomaPonderada(Take(numeros, 12), CNPJ_pesos_1, 12))
              digito_2 == CNPJ_digito(SomaPonderada(Take(numeros, 13), CNPJ_pesos_2, 13))
          IN  IF IntOf(numeros[13]) # digito_1 \/ IntOf(numeros[14]) # digito_2
                THEN [aceito |-> FALSE, valor |-> <<>>]
                ELSE [aceito |-> TRUE, valor |-> numeros]

\* CNPJ(valor=v): the field's constraints, then the validator  entities.py:43
CNPJ(v) ==
    IF ~CampoValor(v) THEN [aceito |-> FALSE, valor |-> <<>>] ELSE validar_cnpj(v)

\* the value object is built from the string validate_cnpj was called on
ConstruirCNPJ ==
    /\ pc = "cnpj_done"
    /\ cnpj_obj' = <<CNPJ(cnpj)>>
    /\ pc' = "cnpj_built"
    /\ UNCHANGED <<foraObj, etlVars>>

NextObjeto ==
    \/ ValidateCnpj
    \/ ConstruirCNPJ

SpecObjeto == InitCnpj /\ [][NextObjeto]_vars

\* C29: for every string of 14 decimal digits the value object CNPJ accepts
\* it exactly when validate_cnpj returns is_valid = true for it, and then both
\* give the same 14-digit value.
C29_SameVerdict ==
    (pc = "cnpj_built" /\ CampoValor(cnpj))
    => /\ cnpj_obj[1].aceito <=> cnpj_ret.valido
       /\ cnpj_obj[1].aceito => cnpj_obj[1].valor = cnpj_ret.limpo

\* the identifier of the tests is accepted by both, with the same value
C29_Witness ==
    /\ pc = "cnpj_built"
    /\ cnpj = CnpjTeste
    /\ cnpj_obj[1] = [aceito |-> TRUE, valor |-> CnpjTeste]
    /\ cnpj_ret = [valido |-> TRUE, limpo |-> CnpjTeste]

(***************************************************************************)
(* ANSDownloader.get_ultimos_trimestres     src/src/etl/downloader.py:159  *)
(***************************************************************************)
\* the most periods asked for
MaxQuantidade == 3
\* the years from 2020 on in which the call can be made
MaxAnos == 2

\* while ... and year >= 2020                                downloader.py:186
ANO_MINIMO == 2020

\* datetime.now().year: the year before the first, or one of MaxAnos years
AnosAtuais == (ANO_MINIMO - 1)..(ANO_MINIMO + MaxAnos - 1)

\* what session.head comes to: status 200, another status, an exception
Respostas == {"200", "404", "erro"}

AnteriorSemAno(y, q) == IF q - 1 < 1 THEN <<y, 4>> ELSE <<y, q - 1>>

\* quarter -= 1; if quarter < 1: quarter = 4; year -= 1      downloader.py:200
Anterior(y, q) == IF q - 1 < 1 THEN <<y - 1, 4>> ELSE <<y, q - 1>>

\* while len(trimestres) < quantidade and year >= 2020       downloader.py:186
Continua == Len(periodos) < quantidade /\ year >= ANO_MINIMO

\* the call, at its first test of the loop condition         downloader.py:179
InitTri ==
    /\ pc = "tri_loop"
    /\ quantidade \in 0..MaxQuantidade
    /\ year \in AnosAtuais
    /\ quarter \in 1..4
    /\ periodos = <<>>
    /\ IdleObj /\ IdleStore /\ IdleCache /\ IdleWrap /\ IdleThreads /\ IdleDl /\ IdleEtl

\* one turn of the loop: the HEAD request and the step back   downloader.py:186
Consultar ==
    /\ pc = "tri_loop"
    /\ Continua
    /\ \E resposta \in Respostas :
         periodos' = IF resposta = "200" THEN Append(periodos, <<year, quarter>>)
                                          ELSE periodos
    /\ year' = Anterior(year, quarter)[1]
    /\ quarter' = Anterior(year, quarter)[2]
    /\ UNCHANGED <<pc, quantidade, foraTri, etlVars>>

\* the loop ends: return trimestres                          downloader.py:207
Retornar ==
    /\ pc = "tri_loop"
    /\ ~Continua
    /\ pc' = "tri_done"
    /\ UNCHANGED <<quantidade, year, quarter, periodos, foraTri, etlVars>>

NextTri ==
    \/ Consultar
    \/ Retornar

SpecTri == InitTri /\ [][NextTri]_vars

\* the call keeps running: a turn of the loop that can be taken is taken
SpecTriJusto == SpecTri /\ WF_vars(NextTri)

\* the place of a period in time
Ordem(p) == 4 * p[1] + p[2]

ResultadoOrdenado ==
    /\ Len(periodos) <= quantidade
    /\ \A i \in 1..Len(periodos) :
          periodos[i][2] \in 1..4 /\ periodos[i][1] >= ANO_MINIMO
    /\ \A i, j \in 1..Len(periodos) :
          i < j => Ordem(periodos[i]) > Ordem(periodos[j])

\* C30: get_ultimos_trimestres ends for every quantity asked and whatever the
\* server answers, an error or a status other than 200 on every request
\* included, and returns at most the quantity asked of periods, each of a
\* quarter 1..4 and a year from 2020 on, in strictly decreasing order of time
\* and none twice.
C30_TerminatesOrdered ==
    /\ <>(pc = "tri_done")
    /\ [](pc = "tri_done" => ResultadoOrdenado)

\* three periods asked in 2021: two found, then the search ran out of years
C30_Witness ==
    /\ pc = "tri_done"
    /\ quantidade = 3
    /\ year = ANO_MINIMO - 1
    /\ periodos = << <<2021, 1>>, <<2020, 4>> >>

====
